---- MODULE Spec2Model ----
(***************************************************************************)
(* Model of the OpenBao replication synchronizer                           *)
(* (src/replication/sync.py, driven through src/replication/client.py).    *)
(*                                                                         *)
(* Paths and names are sequences of one-character strings so that          *)
(* startswith / rstrip / strip are computed as Python computes them.       *)
(* Every remote call is one step; its outcome is "ok", "fail" (the client  *)
(* caught a RequestException and returned False / empty / None) or "raise" *)
(* (an exception the client does not catch).  The secondary is modelled    *)
(* as the server the client talks to: enable / write overwrite the object  *)
(* at a path, disabling a mount drops the secrets stored below it.         *)
(***************************************************************************)
EXTENDS Integers, Sequences, FiniteSets, TLC

\* ------------------------------------------------------------------ bounds
MaxFaults == 1
MaxFaultsTwice == 1
MaxFaultsRerun == 1
MaxFaultsPhase == 2
MaxFaultsMonitor == 1
MaxFaultsCli == 1

\* ------------------------------------------------------------ path strings
Slash == "/"
SysPrefix == <<"s", "y", "s", "/">>
IdentityPrefix == <<"i", "d", "e", "n", "t", "i", "t", "y", "/">>
TokenPath == <<"t", "o", "k", "e", "n", "/">>
RootPolicy == <<"r", "o", "o", "t">>
DefaultPolicy == <<"d", "e", "f", "a", "u", "l", "t">>
SystemPolicies == {RootPolicy, DefaultPolicy}
KvPath == <<"k", "v", "/">>
DbPath == <<"d", "b", "/">>
LdapPath == <<"l", "d", "a", "p", "/">>
DevPolicy == <<"d", "e", "v">>
OpsPolicy == <<"o", "p", "s">>
Custom1Policy == <<"c", "u", "s", "t", "o", "m", "1">>
KeyA == <<"a">>
KeyB == <<"b", "/">>
KeyC == <<"c">>
KeyOld == <<"o", "l", "d">>

\* str.startswith
StartsWith(path, prefix) ==
    /\ Len(prefix) <= Len(path)
    /\ SubSeq(path, 1, Len(prefix)) = prefix

\* str.endswith('/')
EndsWithSlash(s) == Len(s) > 0 /\ s[Len(s)] = Slash

\* str.rstrip('/')
RECURSIVE RStrip(_)
RStrip(s) == IF EndsWithSlash(s) THEN RStrip(SubSeq(s, 1, Len(s) - 1)) ELSE s

\* str.lstrip('/')
RECURSIVE LStrip(_)
LStrip(s) == IF Len(s) > 0 /\ s[1] = Slash THEN LStrip(Tail(s)) ELSE s

\* str.strip('/')
Strip(s) == LStrip(RStrip(s))

\* f"{a}/{b}"
Join(a, b) == a \o <<Slash>> \o b

\* iteration order of a mapping or key list returned by a listing
RECURSIVE SeqOf(_)
SeqOf(S) ==
    IF S = {} THEN << >>
    ELSE LET x == CHOOSE y \in S : TRUE IN <<x>> \o SeqOf(S \ {x})

\* dict.get(key, default) on a mount / auth-method object
None == "None"
EmptyMap == {}
Get(obj, key, default) == IF key \in DOMAIN obj THEN obj[key] ELSE default

\* `if not engine_type` for the type string of a mount / auth-method object
Falsy(x) == x = None \/ x = ""

\* Optional result of a read: None, or the value read
Absent == [some |-> FALSE]
Some(x) == [some |-> TRUE, val |-> x]

\* --------------------------------------------------------------- universes
MountFull == [type |-> "kv", description |-> "d", config |-> {<<"ttl", "1">>}, options |-> {<<"version", "2">>}]
MountBare == [type |-> "kv"]
MountNoType == [description |-> "d", options |-> {<<"version", "2">>}]
MountOld == [type |-> "kv", description |-> "old", config |-> {}, options |-> {}]
MountSystem == [type |-> "system", description |-> "", config |-> {}, options |-> {}]
AuthFull == [type |-> "ldap", description |-> "d", config |-> {<<"ttl", "1">>}, options |-> {<<"version", "2">>}]
AuthNoType == [description |-> "d"]
AuthOld == [type |-> "ldap", description |-> "old", config |-> {}, options |-> {}]
AuthToken == [type |-> "token", description |-> "", config |-> {}, options |-> {}]
AuthSystem == [type |-> "plugin", description |-> "", config |-> {}, options |-> {}]

ReservedMounts == (SysPrefix :> MountSystem) @@ (IdentityPrefix :> MountSystem)
ReservedAuth == (TokenPath :> AuthToken)
ReservedPolicies == (RootPolicy :> "root-rules") @@ (DefaultPolicy :> "default-rules")

\* secret tree kept by the primary under kv/: kv -> [a, b/], kv/b -> [c]
KvRoot == RStrip(KvPath)
KvDirB == Join(KvRoot, RStrip(KeyB))
KvLeafA == Join(KvRoot, KeyA)
KvLeafC == Join(KvDirB, KeyC)
KvLeafOld == Join(KvRoot, KeyOld)
NoDirs == [p \in {} |-> << >>]
NoLeaves == [p \in {} |-> {}]
KvDirs == (KvRoot :> <<KeyA, KeyB>>) @@ (KvDirB :> <<KeyC>>)
KvLeaves == (KvLeafA :> {<<"v", "1">>}) @@ (KvLeafC :> {<<"v", "2">>})

PrimaryMountChoices ==
    { ReservedMounts,
      ReservedMounts @@ (KvPath :> MountFull),
      ReservedMounts @@ (KvPath :> MountFull) @@ (DbPath :> MountBare),
      ReservedMounts @@ (KvPath :> MountNoType) }
PrimaryAuthChoices ==
    { ReservedAuth,
      ReservedAuth @@ (LdapPath :> AuthFull) @@ (SysPrefix :> AuthSystem),
      ReservedAuth @@ (LdapPath :> AuthNoType) }
PrimaryPolicyChoices ==
    { ReservedPolicies,
      ReservedPolicies @@ (DevPolicy :> "dev-rules") @@ (OpsPolicy :> "") }

PrimaryStates ==
    { [mounts |-> m, auth |-> a, policies |-> p,
       dirs |-> IF KvPath \in DOMAIN m THEN KvDirs ELSE NoDirs,
       leaves |-> IF KvPath \in DOMAIN m THEN KvLeaves ELSE NoLeaves] :
      m \in PrimaryMountChoices, a \in PrimaryAuthChoices, p \in PrimaryPolicyChoices }

FreshSecondary ==
    [mounts |-> ReservedMounts, auth |-> ReservedAuth,
     policies |-> ReservedPolicies, secrets |-> NoLeaves]
DirtySecondary ==
    [mounts |-> ReservedMounts @@ (KvPath :> MountOld),
     auth |-> ReservedAuth @@ (LdapPath :> AuthOld) @@ (IdentityPrefix :> AuthOld),
     policies |-> ReservedPolicies @@ (Custom1Policy :> "custom-rules"),
     secrets |-> (KvLeafOld :> {<<"v", "0">>})]
SecondaryStates == {FreshSecondary, DirtySecondary}

\* replication.exclude_paths: empty, the default of config.py, a user prefix
DefaultExcludePaths == <<SysPrefix, IdentityPrefix>>
ExcludeChoices == { << >>, DefaultExcludePaths, <<KvPath>> }

\* ------------------------------------------------------------------- state
VARIABLES
    exclude_paths,  \* ReplicationSynchronizer.exclude_paths
    primary,        \* state of the primary instance
    secondary,      \* state of the secondary instance
    pc,             \* position of the single thread of control
    todo,           \* items the current for-loop has still to visit
    success,        \* local `success` of the running phase
    fs_success,     \* local `success` of full_sync
    phase,          \* index in PhaseOrder of the running phase, 0 before
    stack,          \* frames of _sync_secrets_recursive
    held,           \* value read from the primary and not yet written
    ret,            \* value returned by the sub-operation that just ended
    rets,           \* what each sub-operation of this pass returned
    result,         \* what full_sync returned: none, true, false, raised
    log,            \* remote calls issued so far in this run, in order
    faults,         \* calls of this run that did not succeed
    memo,           \* outcomes already shown to a repeated application
    mode,           \* which operation the caller runs
    run,            \* number of the application in a repeated run
    snap,           \* results and states recorded by the caller between runs
    monitor,        \* monitor_and_sync: its interval, its last sleep, the last pass
    cli             \* main: the --dry-run flag, what it has seen, its exit code

vars == <<exclude_paths, primary, secondary, pc, todo, success, fs_success, phase,
          stack, held, ret, rets, result, log, faults, memo, mode, run, snap,
          monitor, cli>>

B(v) == IF v THEN "true" ELSE "false"

\* monitor_and_sync has not been called
NoMonitor == [interval |-> 0, slept |-> 0, last |-> "none", signal |-> FALSE]

\* main has not been called
NoCli == [dry_run |-> FALSE, primary_healthy |-> FALSE, exited |-> FALSE, code |-> 0]

NoRets == [health |-> "-", clear |-> "-", engines |-> "-", auth |-> "-",
           policies |-> "-", secrets |-> "-"]

\* ---------------------------------------------- the secondary's admin API
\* the server addresses a mount by its slash-terminated path
MountKey(path) == IF EndsWithSlash(path) THEN path ELSE path \o <<Slash>>

Without(f, k) == [x \in DOMAIN f \ {k} |-> f[x]]

\* DELETE v1/sys/mounts/{path}: the mount and every secret below it go
DisableMount(sec, path) ==
    [sec EXCEPT !.mounts = Without(@, MountKey(path)),
                !.secrets = [p \in {q \in DOMAIN @ : ~StartsWith(q, MountKey(path))} |-> @[p]]]

\* DELETE v1/sys/auth/{path}
DisableAuth(sec, path) == [sec EXCEPT !.auth = Without(@, MountKey(path))]

\* DELETE v1/sys/policies/acl/{name}
DeletePolicy(sec, name) == [sec EXCEPT !.policies = Without(@, name)]

\* mutant of EnableMount: enabling a path that is already mounted unmounts it
\* and the new mount is lost
EnableMountRemount(sec, path, type, config) ==
    IF MountKey(path) \in DOMAIN sec.mounts
    THEN DisableMount(sec, path)
    ELSE [sec EXCEPT !.mounts = (MountKey(path) :> (config @@ [type |-> type])) @@ @]

\* data = {'type': t}; data.update(config); POST v1/sys/mounts/{path}
EnablePayload(type, config) == config @@ [type |-> type]
EnableMount(sec, path, type, config) ==
    [sec EXCEPT !.mounts = (MountKey(path) :> EnablePayload(type, config)) @@ @]
EnableAuth(sec, path, type, config) ==
    [sec EXCEPT !.auth = (MountKey(path) :> EnablePayload(type, config)) @@ @]

\* PUT v1/sys/policies/acl/{name} with {'policy': policy}
WritePolicy(sec, name, policy) == [sec EXCEPT !.policies = (name :> policy) @@ @]

\* POST v1/{path}
WriteSecret(sec, path, data) == [sec EXCEPT !.secrets = (path :> data) @@ @]

\* ------------------------------------------------------- outcome of a call
Outcomes == {"ok", "fail", "raise"}
TwiceModes == {"reset_twice", "replicate_twice"}
\* main was called with the action health, sync or monitor
CliModes == {"cli_health", "cli_sync", "cli_monitor"}

Budget ==
    CASE mode = "pass" -> MaxFaults
      [] mode \in TwiceModes -> MaxFaultsTwice
      [] mode = "rerun" -> IF run = 1 THEN MaxFaultsRerun ELSE 0
      [] mode = "phase" -> MaxFaultsPhase
      [] mode = "monitor" -> MaxFaultsMonitor
      [] mode \in CliModes -> MaxFaultsCli
      [] OTHER -> 0

\* one remote call: its outcome is chosen by the environment; a repeated
\* application sees the same answer to the same call as the first one did
Call(inst, site, op, path, o) ==
    LET sig == <<inst, site, op, path>> IN
    /\ IF sig \in DOMAIN memo THEN o = memo[sig] ELSE (o = "ok" \/ faults < Budget)
    /\ faults' = IF o # "ok" /\ sig \notin DOMAIN memo THEN faults + 1 ELSE faults
    /\ memo' = IF mode \in TwiceModes THEN (sig :> o) @@ memo ELSE memo
    /\ log' = Append(log, [inst |-> inst, site |-> site, op |-> op, path |-> path, res |-> o])

\* mutant of should_exclude_path: a path is excluded only when it equals a member
should_exclude_path_exact(path) ==
    \E i \in 1..Len(exclude_paths) : path = exclude_paths[i]

\* ------------------------------------------------------------- Path Filter
should_exclude_path(path) ==
    \E i \in 1..Len(exclude_paths) : StartsWith(path, exclude_paths[i])

\* ---------------------------------------------------------------- full_sync
PassModes == {"pass", "rerun", "monitor", "cli_sync", "cli_monitor"}

FullSyncStart ==
    /\ pc = "idle"
    /\ mode \in PassModes
    /\ pc' = "health_primary"
    /\ UNCHANGED <<exclude_paths, cli, monitor, primary, secondary, todo, success, fs_success, phase,
                   stack, held, ret, rets, result, log, faults, memo, mode, run, snap>>

\* mutant of HealthPrimary: the `return False` of an unhealthy primary is lost
HealthPrimaryNoReturn ==
    /\ pc = "health_primary"
    /\ \E o \in Outcomes :
        /\ Call("primary", "_health_check", "health_check", << >>, o)
        /\ pc' = IF o = "raise" THEN "done" ELSE "health_secondary"
        /\ result' = IF o = "raise" THEN "raised" ELSE result
    /\ UNCHANGED <<exclude_paths, cli, monitor, primary, secondary, todo, success, fs_success, phase,
                   stack, held, ret, rets, mode, run, snap>>

\* _health_check: primary first, the secondary only when the primary is healthy
HealthPrimary ==
    /\ pc = "health_primary"
    /\ \E o \in Outcomes :
        /\ Call("primary", "_health_check", "health_check", << >>, o)
        /\ pc' = IF o = "ok" THEN "health_secondary" ELSE "done"
        /\ rets' = IF o = "fail" THEN [rets EXCEPT !.health = "false"] ELSE rets
        /\ result' = CASE o = "ok" -> result [] o = "fail" -> "false" [] OTHER -> "raised"
    /\ UNCHANGED <<exclude_paths, cli, monitor, primary, secondary, todo, success, fs_success, phase,
                   stack, held, ret, mode, run, snap>>

\* mutant of HealthSecondary: the answer of the secondary is not looked at
HealthSecondaryAssumed ==
    /\ pc = "health_secondary"
    /\ \E o \in Outcomes :
        /\ Call("secondary", "_health_check", "health_check", << >>, o)
        /\ pc' = IF o # "raise" THEN "clear_list_mounts" ELSE "done"
        /\ rets' = IF o # "raise" THEN [rets EXCEPT !.health = "true"] ELSE rets
        /\ result' = IF o # "raise" THEN result ELSE "raised"
    /\ UNCHANGED <<exclude_paths, cli, monitor, primary, secondary, todo, success, fs_success, phase,
                   stack, held, ret, mode, run, snap>>

HealthSecondary ==
    /\ pc = "health_secondary"
    /\ \E o \in Outcomes :
        /\ Call("secondary", "_health_check", "health_check", << >>, o)
        /\ pc' = IF o = "ok" THEN "clear_list_mounts" ELSE "done"
        /\ rets' = CASE o = "ok" -> [rets EXCEPT !.health = "true"]
                     [] o = "fail" -> [rets EXCEPT !.health = "false"]
                     [] OTHER -> rets
        /\ result' = CASE o = "ok" -> result [] o = "fail" -> "false" [] OTHER -> "raised"
    /\ UNCHANGED <<exclude_paths, cli, monitor, primary, secondary, todo, success, fs_success, phase,
                   stack, held, ret, mode, run, snap>>

\* --------------------------------------------------------- _clear_secondary
ClearsMount(path) == ~StartsWith(path, SysPrefix) /\ ~StartsWith(path, IdentityPrefix)
ClearsAuth(path) == path # TokenPath /\ ~StartsWith(path, SysPrefix)
ClearsPolicy(name) == name \notin SystemPolicies

\* mutant of ClearAuthList: the loop over the auth methods stops after the
\* first one it disables
ClearAuthListFirstOnly(sec) ==
    LET eligible == SelectSeq(SeqOf(DOMAIN sec.auth), LAMBDA p : p # TokenPath /\ ~StartsWith(p, SysPrefix))
    IN IF eligible = << >> THEN << >> ELSE <<Head(eligible)>>

\* mutant of ClearPolicyList: the reset never gets to the policies
ClearPolicyListNone(sec) == << >>

\* the mounts, auth methods and policies one reset visits, in listing order
ClearMountList(sec) == SeqOf(DOMAIN sec.mounts)
ClearAuthList(sec) == SeqOf(DOMAIN sec.auth)
ClearPolicyList(sec) == SeqOf(DOMAIN sec.policies)

ClearListMounts ==
    /\ pc = "clear_list_mounts"
    /\ \E o \in Outcomes :
        /\ Call("secondary", "_clear_secondary", "list_secret_engines", << >>, o)
        /\ todo' = IF o = "ok" THEN ClearMountList(secondary) ELSE << >>
        /\ pc' = IF o = "raise" THEN "clear_ret" ELSE "clear_mounts"
        /\ ret' = IF o = "raise" THEN FALSE ELSE ret
    /\ UNCHANGED <<exclude_paths, cli, monitor, primary, secondary, success, fs_success, phase,
                   stack, held, rets, result, mode, run, snap>>

ClearMountSkip ==
    /\ pc = "clear_mounts"
    /\ todo # << >>
    /\ ~ClearsMount(Head(todo))
    /\ todo' = Tail(todo)
    /\ UNCHANGED <<exclude_paths, cli, monitor, primary, secondary, pc, success, fs_success, phase,
                   stack, held, ret, rets, result, log, faults, memo, mode, run, snap>>

\* mutant of ClearMountDisable: a disable call that reports failure ends the
\* reset with False
ClearMountDisableFatal ==
    /\ pc = "clear_mounts"
    /\ todo # << >>
    /\ ClearsMount(Head(todo))
    /\ \E o \in Outcomes :
        /\ Call("secondary", "_clear_secondary", "disable_secret_engine", RStrip(Head(todo)), o)
        /\ secondary' = IF o = "ok" THEN DisableMount(secondary, RStrip(Head(todo))) ELSE secondary
        /\ todo' = IF o # "ok" THEN << >> ELSE Tail(todo)
        /\ pc' = IF o # "ok" THEN "clear_ret" ELSE pc
        /\ ret' = IF o # "ok" THEN FALSE ELSE ret
    /\ UNCHANGED <<exclude_paths, cli, monitor, primary, success, fs_success, phase,
                   stack, held, rets, result, mode, run, snap>>

ClearMountDisable ==
    /\ pc = "clear_mounts"
    /\ todo # << >>
    /\ ClearsMount(Head(todo))
    /\ \E o \in Outcomes :
        /\ Call("secondary", "_clear_secondary", "disable_secret_engine", RStrip(Head(todo)), o)
        /\ secondary' = IF o = "ok" THEN DisableMount(secondary, RStrip(Head(todo))) ELSE secondary
        /\ todo' = IF o = "raise" THEN << >> ELSE Tail(todo)
        /\ pc' = IF o = "raise" THEN "clear_ret" ELSE pc
        /\ ret' = IF o = "raise" THEN FALSE ELSE ret
    /\ UNCHANGED <<exclude_paths, cli, monitor, primary, success, fs_success, phase,
                   stack, held, rets, result, mode, run, snap>>

ClearListAuth ==
    /\ pc = "clear_mounts"
    /\ todo = << >>
    /\ \E o \in Outcomes :
        /\ Call("secondary", "_clear_secondary", "list_auth_methods", << >>, o)
        /\ todo' = IF o = "ok" THEN ClearAuthList(secondary) ELSE << >>
        /\ pc' = IF o = "raise" THEN "clear_ret" ELSE "clear_auth"
        /\ ret' = IF o = "raise" THEN FALSE ELSE ret
    /\ UNCHANGED <<exclude_paths, cli, monitor, primary, secondary, success, fs_success, phase,
                   stack, held, rets, result, mode, run, snap>>

ClearAuthSkip ==
    /\ pc = "clear_auth"
    /\ todo # << >>
    /\ ~ClearsAuth(Head(todo))
    /\ todo' = Tail(todo)
    /\ UNCHANGED <<exclude_paths, cli, monitor, primary, secondary, pc, success, fs_success, phase,
                   stack, held, ret, rets, result, log, faults, memo, mode, run, snap>>

ClearAuthDisable ==
    /\ pc = "clear_auth"
    /\ todo # << >>
    /\ ClearsAuth(Head(todo))
    /\ \E o \in Outcomes :
        /\ Call("secondary", "_clear_secondary", "disable_auth_method", RStrip(Head(todo)), o)
        /\ secondary' = IF o = "ok" THEN DisableAuth(secondary, RStrip(Head(todo))) ELSE secondary
        /\ todo' = IF o = "raise" THEN << >> ELSE Tail(todo)
        /\ pc' = IF o = "raise" THEN "clear_ret" ELSE pc
        /\ ret' = IF o = "raise" THEN FALSE ELSE ret
    /\ UNCHANGED <<exclude_paths, cli, monitor, primary, success, fs_success, phase,
                   stack, held, rets, result, mode, run, snap>>

ClearListPolicies ==
    /\ pc = "clear_auth"
    /\ todo = << >>
    /\ \E o \in Outcomes :
        /\ Call("secondary", "_clear_secondary", "list_policies", << >>, o)
        /\ todo' = IF o = "ok" THEN ClearPolicyList(secondary) ELSE << >>
        /\ pc' = IF o = "raise" THEN "clear_ret" ELSE "clear_policies"
        /\ ret' = IF o = "raise" THEN FALSE ELSE ret
    /\ UNCHANGED <<exclude_paths, cli, monitor, primary, secondary, success, fs_success, phase,
                   stack, held, rets, result, mode, run, snap>>

ClearPolicySkip ==
    /\ pc = "clear_policies"
    /\ todo # << >>
    /\ ~ClearsPolicy(Head(todo))
    /\ todo' = Tail(todo)
    /\ UNCHANGED <<exclude_paths, cli, monitor, primary, secondary, pc, success, fs_success, phase,
                   stack, held, ret, rets, result, log, faults, memo, mode, run, snap>>

ClearPolicyDelete ==
    /\ pc = "clear_policies"
    /\ todo # << >>
    /\ ClearsPolicy(Head(todo))
    /\ \E o \in Outcomes :
        /\ Call("secondary", "_clear_secondary", "delete_policy", Head(todo), o)
        /\ secondary' = IF o = "ok" THEN DeletePolicy(secondary, Head(todo)) ELSE secondary
        /\ todo' = IF o = "raise" THEN << >> ELSE Tail(todo)
        /\ pc' = IF o = "raise" THEN "clear_ret" ELSE pc
        /\ ret' = IF o = "raise" THEN FALSE ELSE ret
    /\ UNCHANGED <<exclude_paths, cli, monitor, primary, success, fs_success, phase,
                   stack, held, rets, result, mode, run, snap>>

ClearDone ==
    /\ pc = "clear_policies"
    /\ todo = << >>
    /\ pc' = "clear_ret"
    /\ ret' = TRUE
    /\ UNCHANGED <<exclude_paths, cli, monitor, primary, secondary, todo, success, fs_success, phase,
                   stack, held, rets, result, log, faults, memo, mode, run, snap>>

ClearSecondary ==
    \/ ClearListMounts \/ ClearMountSkip \/ ClearMountDisable
    \/ ClearListAuth \/ ClearAuthSkip \/ ClearAuthDisable
    \/ ClearListPolicies \/ ClearPolicySkip \/ ClearPolicyDelete
    \/ ClearDone

\* mutant of PhaseOrder: auth methods are replicated before the engines
PhaseOrderAuthFirst == <<"auth", "engines", "policies", "secrets">>

\* ------------------------------------------- full_sync after _clear_secondary
\* success &= engines; success &= auth; success &= policies; success &= secrets
PhaseOrder == <<"engines", "auth", "policies", "secrets">>
PhaseStart(name) ==
    CASE name = "engines" -> "engines_list"
      [] name = "auth" -> "auth_list"
      [] name = "policies" -> "policies_list"
      [] name = "secrets" -> "secrets_list"

\* mutant of AfterClear: the result of _clear_secondary is not looked at
AfterClearIgnored ==
    /\ pc = "clear_ret"
    /\ mode \in PassModes
    /\ rets' = [rets EXCEPT !.clear = B(ret)]
    /\ fs_success' = TRUE
    /\ phase' = 1
    /\ pc' = PhaseStart(PhaseOrder[1])
    /\ UNCHANGED <<exclude_paths, cli, monitor, primary, secondary, todo, success, result,
                   stack, held, ret, log, faults, memo, mode, run, snap>>

AfterClear ==
    /\ pc = "clear_ret"
    /\ mode \in PassModes
    /\ rets' = [rets EXCEPT !.clear = B(ret)]
    /\ IF ret
       THEN /\ fs_success' = TRUE
            /\ phase' = 1
            /\ pc' = PhaseStart(PhaseOrder[1])
            /\ result' = result
       ELSE /\ pc' = "done"
            /\ result' = "false"
            /\ UNCHANGED <<fs_success, phase>>
    /\ UNCHANGED <<exclude_paths, cli, monitor, primary, secondary, todo, success,
                   stack, held, ret, log, faults, memo, mode, run, snap>>

\* mutant of AfterPhase: `success = success and phase()` stops at the first failure
AfterPhaseShortCircuit ==
    /\ pc = "phase_ret"
    /\ mode \in PassModes
    /\ fs_success' = (fs_success /\ ret)
    /\ rets' = [rets EXCEPT ![PhaseOrder[phase]] = B(ret)]
    /\ IF phase < Len(PhaseOrder) /\ ret
       THEN /\ phase' = phase + 1
            /\ pc' = PhaseStart(PhaseOrder[phase + 1])
            /\ result' = result
       ELSE /\ pc' = "done"
            /\ result' = B(fs_success /\ ret)
            /\ phase' = phase
    /\ UNCHANGED <<exclude_paths, cli, monitor, primary, secondary, todo, success,
                   stack, held, ret, log, faults, memo, mode, run, snap>>

AfterPhase ==
    /\ pc = "phase_ret"
    /\ mode \in PassModes
    /\ fs_success' = (fs_success /\ ret)
    /\ rets' = [rets EXCEPT ![PhaseOrder[phase]] = B(ret)]
    /\ IF phase < Len(PhaseOrder)
       THEN /\ phase' = phase + 1
            /\ pc' = PhaseStart(PhaseOrder[phase + 1])
            /\ result' = result
       ELSE /\ pc' = "done"
            /\ result' = B(fs_success /\ ret)
            /\ phase' = phase
    /\ UNCHANGED <<exclude_paths, cli, monitor, primary, secondary, todo, success,
                   stack, held, ret, log, faults, memo, mode, run, snap>>

\* ----------------------------------------------------- _sync_secret_engines
EngineSkipped(path, config) ==
    \/ should_exclude_path(path)
    \/ StartsWith(path, SysPrefix) \/ StartsWith(path, IdentityPrefix)
    \/ Falsy(Get(config, "type", None))

EnginePayload(config) ==
    [description |-> Get(config, "description", ""),
     config |-> Get(config, "config", EmptyMap),
     options |-> Get(config, "options", EmptyMap)]

EnginesList ==
    /\ pc = "engines_list"
    /\ \E o \in Outcomes :
        /\ Call("primary", "_sync_secret_engines", "list_secret_engines", << >>, o)
        /\ todo' = IF o = "ok" THEN SeqOf(DOMAIN primary.mounts) ELSE << >>
        /\ pc' = IF o = "raise" THEN "phase_ret" ELSE "engines_loop"
        /\ ret' = IF o = "raise" THEN FALSE ELSE ret
    /\ success' = TRUE
    /\ UNCHANGED <<exclude_paths, cli, monitor, primary, secondary, fs_success, phase,
                   stack, held, rets, result, mode, run, snap>>

\* mutant of EnginesSkip: a mount without a type counts as a failure
EnginesSkipCountsFailure ==
    /\ pc = "engines_loop"
    /\ todo # << >>
    /\ EngineSkipped(Head(todo), primary.mounts[Head(todo)])
    /\ todo' = Tail(todo)
    /\ success' = IF Falsy(Get(primary.mounts[Head(todo)], "type", None)) THEN FALSE ELSE success
    /\ UNCHANGED <<exclude_paths, cli, monitor, primary, secondary, pc, fs_success, phase,
                   stack, held, ret, rets, result, log, faults, memo, mode, run, snap>>

EnginesSkip ==
    /\ pc = "engines_loop"
    /\ todo # << >>
    /\ EngineSkipped(Head(todo), primary.mounts[Head(todo)])
    /\ todo' = Tail(todo)
    /\ UNCHANGED <<exclude_paths, cli, monitor, primary, secondary, pc, success, fs_success, phase,
                   stack, held, ret, rets, result, log, faults, memo, mode, run, snap>>

\* mutant of EnginesEnable: the loop stops at the first engine that fails
EnginesEnableStopsOnFailure ==
    /\ pc = "engines_loop"
    /\ todo # << >>
    /\ ~EngineSkipped(Head(todo), primary.mounts[Head(todo)])
    /\ LET path == Head(todo)
           config == primary.mounts[path]
       IN \E o \in Outcomes :
            /\ Call("secondary", "_sync_secret_engines", "enable_secret_engine", RStrip(path), o)
            /\ secondary' = IF o = "ok"
                            THEN EnableMount(secondary, RStrip(path), config.type, EnginePayload(config))
                            ELSE secondary
            /\ success' = IF o = "fail" THEN FALSE ELSE success
            /\ todo' = IF o # "ok" THEN << >> ELSE Tail(todo)
            /\ pc' = IF o = "raise" THEN "phase_ret" ELSE pc
            /\ ret' = IF o = "raise" THEN FALSE ELSE ret
    /\ UNCHANGED <<exclude_paths, cli, monitor, primary, fs_success, phase,
                   stack, held, rets, result, mode, run, snap>>

EnginesEnable ==
    /\ pc = "engines_loop"
    /\ todo # << >>
    /\ ~EngineSkipped(Head(todo), primary.mounts[Head(todo)])
    /\ LET path == Head(todo)
           config == primary.mounts[path]
       IN \E o \in Outcomes :
            /\ Call("secondary", "_sync_secret_engines", "enable_secret_engine", RStrip(path), o)
            /\ secondary' = IF o = "ok"
                            THEN EnableMount(secondary, RStrip(path), config.type, EnginePayload(config))
                            ELSE secondary
            /\ success' = IF o = "fail" THEN FALSE ELSE success
            /\ todo' = IF o = "raise" THEN << >> ELSE Tail(todo)
            /\ pc' = IF o = "raise" THEN "phase_ret" ELSE pc
            /\ ret' = IF o = "raise" THEN FALSE ELSE ret
    /\ UNCHANGED <<exclude_paths, cli, monitor, primary, fs_success, phase,
                   stack, held, rets, result, mode, run, snap>>

EnginesDone ==
    /\ pc = "engines_loop"
    /\ todo = << >>
    /\ pc' = "phase_ret"
    /\ ret' = success
    /\ UNCHANGED <<exclude_paths, cli, monitor, primary, secondary, todo, success, fs_success, phase,
                   stack, held, rets, result, log, faults, memo, mode, run, snap>>

SyncSecretEngines == EnginesList \/ EnginesSkip \/ EnginesEnable \/ EnginesDone

\* ------------------------------------------------------- _sync_auth_methods
AuthSkipped(path, config) ==
    \/ should_exclude_path(path)
    \/ path = TokenPath
    \/ Falsy(Get(config, "type", None))

AuthPayload(config) ==
    [description |-> Get(config, "description", ""),
     config |-> Get(config, "config", EmptyMap)]

AuthList ==
    /\ pc = "auth_list"
    /\ \E o \in Outcomes :
        /\ Call("primary", "_sync_auth_methods", "list_auth_methods", << >>, o)
        /\ todo' = IF o = "ok" THEN SeqOf(DOMAIN primary.auth) ELSE << >>
        /\ pc' = IF o = "raise" THEN "phase_ret" ELSE "auth_loop"
        /\ ret' = IF o = "raise" THEN FALSE ELSE ret
    /\ success' = TRUE
    /\ UNCHANGED <<exclude_paths, cli, monitor, primary, secondary, fs_success, phase,
                   stack, held, rets, result, mode, run, snap>>

AuthSkip ==
    /\ pc = "auth_loop"
    /\ todo # << >>
    /\ AuthSkipped(Head(todo), primary.auth[Head(todo)])
    /\ todo' = Tail(todo)
    /\ UNCHANGED <<exclude_paths, cli, monitor, primary, secondary, pc, success, fs_success, phase,
                   stack, held, ret, rets, result, log, faults, memo, mode, run, snap>>

AuthEnable ==
    /\ pc = "auth_loop"
    /\ todo # << >>
    /\ ~AuthSkipped(Head(todo), primary.auth[Head(todo)])
    /\ LET path == Head(todo)
           config == primary.auth[path]
       IN \E o \in Outcomes :
            /\ Call("secondary", "_sync_auth_methods", "enable_auth_method", RStrip(path), o)
            /\ secondary' = IF o = "ok"
                            THEN EnableAuth(secondary, RStrip(path), config.type, AuthPayload(config))
                            ELSE secondary
            /\ success' = IF o = "fail" THEN FALSE ELSE success
            /\ todo' = IF o = "raise" THEN << >> ELSE Tail(todo)
            /\ pc' = IF o = "raise" THEN "phase_ret" ELSE pc
            /\ ret' = IF o = "raise" THEN FALSE ELSE ret
    /\ UNCHANGED <<exclude_paths, cli, monitor, primary, fs_success, phase,
                   stack, held, rets, result, mode, run, snap>>

AuthDone ==
    /\ pc = "auth_loop"
    /\ todo = << >>
    /\ pc' = "phase_ret"
    /\ ret' = success
    /\ UNCHANGED <<exclude_paths, cli, monitor, primary, secondary, todo, success, fs_success, phase,
                   stack, held, rets, result, log, faults, memo, mode, run, snap>>

SyncAuthMethods == AuthList \/ AuthSkip \/ AuthEnable \/ AuthDone

\* ----------------------------------------------------------- _sync_policies
PolicySkipped(name) == name \in SystemPolicies

PoliciesList ==
    /\ pc = "policies_list"
    /\ \E o \in Outcomes :
        /\ Call("primary", "_sync_policies", "list_policies", << >>, o)
        /\ todo' = IF o = "ok" THEN SeqOf(DOMAIN primary.policies) ELSE << >>
        /\ pc' = IF o = "raise" THEN "phase_ret" ELSE "policies_loop"
        /\ ret' = IF o = "raise" THEN FALSE ELSE ret
    /\ success' = TRUE
    /\ UNCHANGED <<exclude_paths, cli, monitor, primary, secondary, fs_success, phase,
                   stack, held, rets, result, mode, run, snap>>

PoliciesSkip ==
    /\ pc = "policies_loop"
    /\ todo # << >>
    /\ PolicySkipped(Head(todo))
    /\ todo' = Tail(todo)
    /\ UNCHANGED <<exclude_paths, cli, monitor, primary, secondary, pc, success, fs_success, phase,
                   stack, held, ret, rets, result, log, faults, memo, mode, run, snap>>

\* policy_content = self.primary.read_policy(policy_name); None is skipped
PoliciesRead ==
    /\ pc = "policies_loop"
    /\ todo # << >>
    /\ ~PolicySkipped(Head(todo))
    /\ \E o \in Outcomes :
        /\ Call("primary", "_sync_policies", "read_policy", Head(todo), o)
        /\ held' = IF o = "ok" THEN Some(primary.policies[Head(todo)]) ELSE Absent
        /\ todo' = CASE o = "ok" -> todo [] o = "fail" -> Tail(todo) [] OTHER -> << >>
        /\ pc' = CASE o = "ok" -> "policies_write" [] o = "fail" -> pc [] OTHER -> "phase_ret"
        /\ ret' = IF o = "raise" THEN FALSE ELSE ret
    /\ UNCHANGED <<exclude_paths, cli, monitor, primary, secondary, success, fs_success, phase,
                   stack, rets, result, mode, run, snap>>

PoliciesWrite ==
    /\ pc = "policies_write"
    /\ \E o \in Outcomes :
        /\ Call("secondary", "_sync_policies", "write_policy", Head(todo), o)
        /\ secondary' = IF o = "ok" THEN WritePolicy(secondary, Head(todo), held.val) ELSE secondary
        /\ success' = IF o = "fail" THEN FALSE ELSE success
        /\ todo' = IF o = "raise" THEN << >> ELSE Tail(todo)
        /\ pc' = IF o = "raise" THEN "phase_ret" ELSE "policies_loop"
        /\ ret' = IF o = "raise" THEN FALSE ELSE ret
    /\ held' = Absent
    /\ UNCHANGED <<exclude_paths, cli, monitor, primary, fs_success, phase,
                   stack, rets, result, mode, run, snap>>

PoliciesDone ==
    /\ pc = "policies_loop"
    /\ todo = << >>
    /\ pc' = "phase_ret"
    /\ ret' = success
    /\ UNCHANGED <<exclude_paths, cli, monitor, primary, secondary, todo, success, fs_success, phase,
                   stack, held, rets, result, log, faults, memo, mode, run, snap>>

SyncPolicies == PoliciesList \/ PoliciesSkip \/ PoliciesRead \/ PoliciesWrite \/ PoliciesDone

\* mutant of MountSkipped: only the system mounts are left out of the traversal
MountSkippedSystemOnly(mount_path) ==
    StartsWith(mount_path, SysPrefix) \/ StartsWith(mount_path, IdentityPrefix)

\* ------------------------------------------------------------ _sync_secrets
MountSkipped(mount_path) ==
    \/ should_exclude_path(mount_path)
    \/ StartsWith(mount_path, SysPrefix) \/ StartsWith(mount_path, IdentityPrefix)

\* a frame of _sync_secrets_recursive(mount_path, sub_path)
Frame(mount_path, sub_path) ==
    [mount_path |-> mount_path, sub_path |-> sub_path,
     full_path |-> RStrip(Join(mount_path, sub_path)),
     keys |-> << >>, success |-> TRUE]

Top == stack[Len(stack)]

\* mutant of CurrentPath: the mount prefix is lost, the path is relative to the mount
CurrentPathRelative(frame) == Strip(Join(frame.sub_path, Head(frame.keys)))

\* current_path = f"{full_path}/{key}".strip('/')
CurrentPath(frame) == Strip(Join(frame.full_path, Head(frame.keys)))

\* if secret_data:
Truthy(data) == data.some /\ data.val # EmptyMap

\* what the primary answers to list_secrets and read_secret
ListSecrets(path) == IF path \in DOMAIN primary.dirs THEN primary.dirs[path] ELSE << >>
ReadSecret(path) == IF path \in DOMAIN primary.leaves THEN Some(primary.leaves[path]) ELSE Absent

SecretsList ==
    /\ pc = "secrets_list"
    /\ \E o \in Outcomes :
        /\ Call("primary", "_sync_secrets", "list_secret_engines", << >>, o)
        /\ todo' = IF o = "ok" THEN SeqOf(DOMAIN primary.mounts) ELSE << >>
        /\ pc' = IF o = "raise" THEN "phase_ret" ELSE "secrets_loop"
        /\ ret' = IF o = "raise" THEN FALSE ELSE ret
    /\ success' = TRUE
    /\ UNCHANGED <<exclude_paths, cli, monitor, primary, secondary, fs_success, phase,
                   stack, held, rets, result, mode, run, snap>>

SecretsSkip ==
    /\ pc = "secrets_loop"
    /\ todo # << >>
    /\ MountSkipped(Head(todo))
    /\ todo' = Tail(todo)
    /\ UNCHANGED <<exclude_paths, cli, monitor, primary, secondary, pc, success, fs_success, phase,
                   stack, held, ret, rets, result, log, faults, memo, mode, run, snap>>

\* self._sync_secrets_recursive(mount_path.rstrip('/'), '')
SecretsEnter ==
    /\ pc = "secrets_loop"
    /\ todo # << >>
    /\ ~MountSkipped(Head(todo))
    /\ stack' = <<Frame(RStrip(Head(todo)), << >>)>>
    /\ pc' = "rec_list"
    /\ UNCHANGED <<exclude_paths, cli, monitor, primary, secondary, todo, success, fs_success, phase,
                   held, ret, rets, result, log, faults, memo, mode, run, snap>>

SecretsDone ==
    /\ pc = "secrets_loop"
    /\ todo = << >>
    /\ pc' = "phase_ret"
    /\ ret' = success
    /\ UNCHANGED <<exclude_paths, cli, monitor, primary, secondary, todo, success, fs_success, phase,
                   stack, held, rets, result, log, faults, memo, mode, run, snap>>

\* ------------------------------------------------ _sync_secrets_recursive
\* the top frame returns v: to its parent frame, or to the loop of _sync_secrets
FrameReturn(v) ==
    IF Len(stack) > 1
    THEN /\ stack' = [SubSeq(stack, 1, Len(stack) - 1) EXCEPT
                        ![Len(stack) - 1].keys = Tail(@),
                        ![Len(stack) - 1].success = (@ /\ v)]
         /\ pc' = "rec_loop"
         /\ UNCHANGED <<todo, success>>
    ELSE /\ stack' = << >>
         /\ pc' = "secrets_loop"
         /\ todo' = Tail(todo)
         /\ success' = (success /\ v)

\* mutant of FrameAdvance: a key that failed ends the frame with False
FrameAdvanceOrAbort(ok) ==
    IF ok
    THEN /\ stack' = [stack EXCEPT ![Len(stack)].keys = Tail(@)]
         /\ pc' = "rec_loop"
         /\ UNCHANGED <<todo, success>>
    ELSE FrameReturn(FALSE)

\* the top frame goes on with its next key, its `success` and-ed with ok
FrameAdvance(ok) ==
    /\ stack' = [stack EXCEPT ![Len(stack)].keys = Tail(@),
                              ![Len(stack)].success = (@ /\ ok)]
    /\ pc' = "rec_loop"
    /\ UNCHANGED <<todo, success>>

\* mutant of RecList: a listing that fails makes the frame return False
RecListFailureCounts ==
    /\ pc = "rec_list"
    /\ \E o \in Outcomes :
        /\ Call("primary", "_sync_secrets_recursive", "list_secrets", Top.full_path, o)
        /\ IF o # "ok"
           THEN FrameReturn(FALSE)
           ELSE /\ stack' = [stack EXCEPT ![Len(stack)].keys = ListSecrets(Top.full_path)]
                /\ pc' = "rec_loop"
                /\ UNCHANGED <<todo, success>>
    /\ UNCHANGED <<exclude_paths, cli, monitor, primary, secondary, fs_success, phase,
                   held, ret, rets, result, mode, run, snap>>

RecList ==
    /\ pc = "rec_list"
    /\ \E o \in Outcomes :
        /\ Call("primary", "_sync_secrets_recursive", "list_secrets", Top.full_path, o)
        /\ IF o = "raise"
           THEN FrameReturn(FALSE)
           ELSE /\ stack' = [stack EXCEPT ![Len(stack)].keys =
                                IF o = "ok" THEN ListSecrets(Top.full_path) ELSE << >>]
                /\ pc' = "rec_loop"
                /\ UNCHANGED <<todo, success>>
    /\ UNCHANGED <<exclude_paths, cli, monitor, primary, secondary, fs_success, phase,
                   held, ret, rets, result, mode, run, snap>>

\* mutant of RecDescend: the recursive call is made with the sub-path it got
RecDescendSamePath ==
    /\ pc = "rec_loop"
    /\ Top.keys # << >>
    /\ EndsWithSlash(Head(Top.keys))
    /\ stack' = Append(stack, Frame(Top.mount_path, Top.sub_path))
    /\ pc' = "rec_list"
    /\ UNCHANGED <<exclude_paths, cli, monitor, primary, secondary, todo, success, fs_success, phase,
                   held, ret, rets, result, log, faults, memo, mode, run, snap>>

\* key.endswith('/'): recurse with sub_path = f"{sub_path}/{key}".strip('/')
RecDescend ==
    /\ pc = "rec_loop"
    /\ Top.keys # << >>
    /\ EndsWithSlash(Head(Top.keys))
    /\ stack' = Append(stack, Frame(Top.mount_path, Strip(Join(Top.sub_path, Head(Top.keys)))))
    /\ pc' = "rec_list"
    /\ UNCHANGED <<exclude_paths, cli, monitor, primary, secondary, todo, success, fs_success, phase,
                   held, ret, rets, result, log, faults, memo, mode, run, snap>>

RecRead ==
    /\ pc = "rec_loop"
    /\ Top.keys # << >>
    /\ ~EndsWithSlash(Head(Top.keys))
    /\ \E o \in Outcomes :
        /\ Call("primary", "_sync_secrets_recursive", "read_secret", CurrentPath(Top), o)
        /\ LET data == IF o = "ok" THEN ReadSecret(CurrentPath(Top)) ELSE Absent IN
           CASE o = "raise" -> FrameReturn(FALSE) /\ held' = Absent
             [] o # "raise" /\ Truthy(data) ->
                    /\ held' = data
                    /\ pc' = "rec_write"
                    /\ UNCHANGED <<stack, todo, success>>
             [] OTHER -> FrameAdvance(TRUE) /\ held' = Absent
    /\ UNCHANGED <<exclude_paths, cli, monitor, primary, secondary, fs_success, phase,
                   ret, rets, result, mode, run, snap>>

\* mutant of RecWrite: the secret is written back to the primary
RecWriteToPrimary ==
    /\ pc = "rec_write"
    /\ \E o \in Outcomes :
        /\ Call("primary", "_sync_secrets_recursive", "write_secret", CurrentPath(Top), o)
        /\ primary' = IF o = "ok"
                      THEN [primary EXCEPT !.leaves = (CurrentPath(Top) :> {<<"v", "9">>}) @@ @]
                      ELSE primary
        /\ IF o = "raise" THEN FrameReturn(FALSE) ELSE FrameAdvance(o = "ok")
    /\ held' = Absent
    /\ UNCHANGED <<exclude_paths, cli, monitor, secondary, fs_success, phase,
                   ret, rets, result, mode, run, snap>>

RecWrite ==
    /\ pc = "rec_write"
    /\ \E o \in Outcomes :
        /\ Call("secondary", "_sync_secrets_recursive", "write_secret", CurrentPath(Top), o)
        /\ secondary' = IF o = "ok" THEN WriteSecret(secondary, CurrentPath(Top), held.val) ELSE secondary
        /\ IF o = "raise" THEN FrameReturn(FALSE) ELSE FrameAdvance(o = "ok")
    /\ held' = Absent
    /\ UNCHANGED <<exclude_paths, cli, monitor, primary, fs_success, phase,
                   ret, rets, result, mode, run, snap>>

RecDone ==
    /\ pc = "rec_loop"
    /\ Top.keys = << >>
    /\ FrameReturn(Top.success)
    /\ UNCHANGED <<exclude_paths, cli, monitor, primary, secondary, fs_success, phase,
                   held, ret, rets, result, log, faults, memo, mode, run, snap>>

SyncSecrets ==
    \/ SecretsList \/ SecretsSkip \/ SecretsEnter \/ SecretsDone
    \/ RecList \/ RecDescend \/ RecRead \/ RecWrite \/ RecDone

\* ------------------------------------------------------ one full_sync pass
FullSync ==
    \/ FullSyncStart \/ HealthPrimary \/ HealthSecondary
    \/ ClearSecondary \/ AfterClear
    \/ SyncSecretEngines \/ SyncAuthMethods \/ SyncPolicies \/ SyncSecrets
    \/ AfterPhase

InitLocals ==
    /\ todo = << >>
    /\ success = TRUE
    /\ fs_success = TRUE
    /\ stack = << >>
    /\ held = Absent
    /\ ret = TRUE
    /\ rets = NoRets
    /\ result = "none"
    /\ log = << >>
    /\ faults = 0
    /\ memo = << >>
    /\ monitor = NoMonitor
    /\ cli = NoCli

\* snap.sec[1] is the secondary the caller started from; every return the
\* caller observes appends the returned value and the secondary at that time
Snap0(sec) == [res |-> << >>, sec |-> <<sec>>]
Snapped(value) == [res |-> Append(snap.res, value), sec |-> Append(snap.sec, secondary)]

Init ==
    /\ exclude_paths \in ExcludeChoices
    /\ primary \in PrimaryStates
    /\ secondary \in SecondaryStates
    /\ mode = "pass"
    /\ pc = "idle"
    /\ run = 1
    /\ phase = 0
    /\ snap = Snap0(secondary)
    /\ InitLocals

Next == FullSync

Spec == Init /\ [][Next]_vars

\* ------------------------------------------ callers that apply an operation twice
\* _clear_secondary run twice in succession on the same secondary
ResetAgain ==
    /\ pc = "clear_ret"
    /\ mode = "reset_twice"
    /\ run = 1
    /\ snap' = Snapped(B(ret))
    /\ run' = 2
    /\ pc' = "clear_list_mounts"
    /\ todo' = << >>
    /\ UNCHANGED <<exclude_paths, cli, monitor, primary, secondary, success, fs_success, phase,
                   stack, held, ret, rets, result, log, faults, memo, mode>>

ResetFinish ==
    /\ pc = "clear_ret"
    /\ mode = "reset_twice"
    /\ run = 2
    /\ snap' = Snapped(B(ret))
    /\ pc' = "done"
    /\ UNCHANGED <<exclude_paths, cli, monitor, primary, secondary, todo, success, fs_success, phase,
                   stack, held, ret, rets, result, log, faults, memo, mode, run>>

InitResetTwice ==
    /\ exclude_paths \in ExcludeChoices
    /\ primary \in PrimaryStates
    /\ secondary \in SecondaryStates
    /\ mode = "reset_twice"
    /\ pc = "clear_list_mounts"
    /\ run = 1
    /\ phase = 0
    /\ snap = Snap0(secondary)
    /\ InitLocals

NextResetTwice == ClearSecondary \/ ResetAgain \/ ResetFinish

SpecResetTwice == InitResetTwice /\ [][NextResetTwice]_vars

\* one configuration replicator applied twice with the same primary list
ReplicateAgain ==
    /\ pc = "phase_ret"
    /\ mode = "replicate_twice"
    /\ run = 1
    /\ snap' = Snapped(B(ret))
    /\ run' = 2
    /\ pc' = PhaseStart(PhaseOrder[phase])
    /\ todo' = << >>
    /\ UNCHANGED <<exclude_paths, cli, monitor, primary, secondary, success, fs_success, phase,
                   stack, held, ret, rets, result, log, faults, memo, mode>>

ReplicateFinish ==
    /\ pc = "phase_ret"
    /\ mode = "replicate_twice"
    /\ run = 2
    /\ snap' = Snapped(B(ret))
    /\ pc' = "done"
    /\ UNCHANGED <<exclude_paths, cli, monitor, primary, secondary, todo, success, fs_success, phase,
                   stack, held, ret, rets, result, log, faults, memo, mode, run>>

InitReplicateTwice ==
    /\ exclude_paths \in ExcludeChoices
    /\ primary \in PrimaryStates
    /\ secondary \in SecondaryStates
    /\ mode = "replicate_twice"
    /\ run = 1
    /\ snap = Snap0(secondary)
    /\ InitLocals
    /\ \E i \in 1..3 : phase = i /\ pc = PhaseStart(PhaseOrder[i])

NextReplicateTwice ==
    \/ SyncSecretEngines \/ SyncAuthMethods \/ SyncPolicies
    \/ ReplicateAgain \/ ReplicateFinish

SpecReplicateTwice == InitReplicateTwice /\ [][NextReplicateTwice]_vars

\* ------------------------------- a caller that re-runs full_sync after a failure
\* run 0: one pass on a fresh secondary, every call succeeding (the reference)
\* run 1: a pass on the secondary snap.sec[1]; calls may fail, the pass may be killed
\* run 2, 3: full_sync again, every call succeeding
RestartPass(value) ==
    /\ snap' = Snapped(value)
    /\ run' = run + 1
    /\ secondary' = IF run = 0 THEN snap.sec[1] ELSE secondary
    /\ pc' = "idle"
    /\ todo' = << >>
    /\ success' = TRUE
    /\ fs_success' = TRUE
    /\ phase' = 0
    /\ stack' = << >>
    /\ held' = Absent
    /\ ret' = TRUE
    /\ rets' = NoRets
    /\ result' = "none"
    /\ log' = << >>
    /\ faults' = 0
    /\ UNCHANGED <<exclude_paths, cli, monitor, primary, memo, mode>>

RerunNext ==
    /\ mode = "rerun"
    /\ pc = "done"
    /\ run < 3
    /\ RestartPass(result)

\* the process is stopped in the middle of the pass (nothing in full_sync catches it)
RerunKilled ==
    /\ mode = "rerun"
    /\ run = 1
    /\ pc \notin {"idle", "done"}
    /\ RestartPass("killed")

RerunFinish ==
    /\ mode = "rerun"
    /\ pc = "done"
    /\ run = 3
    /\ snap' = Snapped(result)
    /\ pc' = "finished"
    /\ UNCHANGED <<exclude_paths, cli, monitor, primary, secondary, todo, success, fs_success, phase,
                   stack, held, ret, rets, result, log, faults, memo, mode, run>>

\* the primaries that hold user policies and a typed user auth method
RerunPrimaryStates ==
    {p \in PrimaryStates : DevPolicy \in DOMAIN p.policies /\ SysPrefix \in DOMAIN p.auth}

InitRerun ==
    /\ exclude_paths \in ExcludeChoices
    /\ primary \in RerunPrimaryStates
    /\ secondary = FreshSecondary
    /\ mode = "rerun"
    /\ pc = "idle"
    /\ run = 0
    /\ phase = 0
    /\ \E s0 \in SecondaryStates : snap = Snap0(s0)
    /\ InitLocals

NextRerun == FullSync \/ RerunNext \/ RerunKilled \/ RerunFinish

SpecRerun == InitRerun /\ [][NextRerun]_vars

\* ------------------------------ a caller that applies one sub-operation once
\* a primary with two user mounts that both hold secrets, and cousin branches:
\* kv -> [a, b/, d/], kv/b -> [c], kv/d -> [e], db -> [k]
KeyD == <<"d", "/">>
KeyE == <<"e">>
KeyK == <<"k">>
KvDirD == Join(KvRoot, RStrip(KeyD))
KvLeafE == Join(KvDirD, KeyE)
DbRoot == RStrip(DbPath)
DbLeafK == Join(DbRoot, KeyK)
RichDirs ==
    (KvRoot :> <<KeyA, KeyB, KeyD>>) @@ (KvDirB :> <<KeyC>>) @@ (KvDirD :> <<KeyE>>)
        @@ (DbRoot :> <<KeyK>>)
RichLeaves ==
    (KvLeafA :> {<<"v", "1">>}) @@ (KvLeafC :> {<<"v", "2">>})
        @@ (KvLeafE :> {<<"v", "3">>}) @@ (DbLeafK :> {<<"v", "4">>})
RichPrimary ==
    [mounts |-> ReservedMounts @@ (KvPath :> MountFull) @@ (DbPath :> MountBare),
     auth |-> ReservedAuth @@ (LdapPath :> AuthFull) @@ (SysPrefix :> AuthSystem),
     policies |-> ReservedPolicies @@ (DevPolicy :> "dev-rules") @@ (OpsPolicy :> ""),
     dirs |-> RichDirs, leaves |-> RichLeaves]
\* a primary that holds objects without a type next to objects with one
JwtPath == <<"j", "w", "t", "/">>
MixedPrimary ==
    [mounts |-> ReservedMounts @@ (KvPath :> MountFull) @@ (DbPath :> MountNoType),
     auth |-> ReservedAuth @@ (LdapPath :> AuthFull) @@ (JwtPath :> AuthNoType),
     policies |-> ReservedPolicies,
     dirs |-> RichDirs, leaves |-> RichLeaves]
PhasePrimaryStates == PrimaryStates \cup {RichPrimary, MixedPrimary}

\* exclusion sets that name a sub-path below a mount root, and a policy name
KvSubPrefix == KvPath \o KeyB
PhaseExcludeChoices == ExcludeChoices \cup { <<KvSubPrefix>>, <<DevPolicy>> }

\* the sub-operation returned to its caller
PhaseFinish ==
    /\ pc = "phase_ret"
    /\ mode = "phase"
    /\ snap' = Snapped(B(ret))
    /\ pc' = "done"
    /\ UNCHANGED <<exclude_paths, cli, monitor, primary, secondary, todo, success, fs_success, phase,
                   stack, held, ret, rets, result, log, faults, memo, mode, run>>

InitPhase ==
    /\ exclude_paths \in PhaseExcludeChoices
    /\ primary \in PhasePrimaryStates
    /\ secondary \in SecondaryStates
    /\ mode = "phase"
    /\ run = 1
    /\ snap = Snap0(secondary)
    /\ InitLocals
    /\ \E i \in 1..Len(PhaseOrder) : phase = i /\ pc = PhaseStart(PhaseOrder[i])

NextPhase ==
    \/ SyncSecretEngines \/ SyncAuthMethods \/ SyncPolicies \/ SyncSecrets
    \/ PhaseFinish

SpecPhase == InitPhase /\ [][NextPhase]_vars

\* ----------------------------------- a caller that asks the Path Filter once
\* the paths of test_should_exclude_path, and paths that differ from a prefix
\* in case, in a leading slash or in the trailing slash
FilterPaths ==
    { <<"s", "y", "s", "/", "a", "u", "t", "h">>,
      <<"i", "d", "e", "n", "t", "i", "t", "y", "/", "e", "n", "t", "i", "t", "y">>,
      <<"s", "e", "c", "r", "e", "t", "/", "m", "y", "a", "p", "p">>,
      SysPrefix,
      <<"s", "y", "s">>,
      <<"S", "y", "s", "/", "a", "u", "t", "h">>,
      <<"/", "s", "y", "s", "/", "a", "u", "t", "h">>,
      << >>,
      KvRoot,
      KvLeafC }
FilterExcludeChoices ==
    PhaseExcludeChoices \cup { << << >> >>, << <<"s", "y", "s">> >>, <<KvSubPrefix, SysPrefix>> }

\* self.should_exclude_path(path), called on its own
ShouldExcludeCall ==
    /\ pc = "filter_call"
    /\ mode = "filter"
    /\ ret' = should_exclude_path(Head(todo))
    /\ pc' = "done"
    /\ UNCHANGED <<exclude_paths, cli, monitor, primary, secondary, todo, success, fs_success, phase,
                   stack, held, rets, result, log, faults, memo, mode, run, snap>>

InitFilter ==
    /\ exclude_paths \in FilterExcludeChoices
    /\ primary = RichPrimary
    /\ secondary = DirtySecondary
    /\ mode = "filter"
    /\ pc = "filter_call"
    /\ run = 1
    /\ phase = 0
    /\ snap = Snap0(secondary)
    /\ todo \in {<<path>> : path \in FilterPaths}
    /\ success = TRUE
    /\ fs_success = TRUE
    /\ stack = << >>
    /\ held = Absent
    /\ ret = FALSE
    /\ rets = NoRets
    /\ result = "none"
    /\ log = << >>
    /\ faults = 0
    /\ memo = << >>
    /\ monitor = NoMonitor
    /\ cli = NoCli

NextFilter == ShouldExcludeCall

SpecFilter == InitFilter /\ [][NextFilter]_vars

\* ----------------------------------------------------------- monitor_and_sync
\* replication.sync_interval of config.py, and the sleep after an exception
SyncInterval == 300
RetryBackoff == 30
IntervalChoices == {SyncInterval, 60}

MonitorModes == {"monitor", "cli_monitor"}

\* the locals of a new full_sync call; the failures the environment may
\* still inject are counted over the whole run of the loop
FreshPass ==
    /\ todo' = << >>
    /\ success' = TRUE
    /\ fs_success' = TRUE
    /\ phase' = 0
    /\ stack' = << >>
    /\ held' = Absent
    /\ ret' = TRUE
    /\ rets' = NoRets
    /\ result' = "none"
    /\ log' = << >>
    /\ faults' = faults

\* while True: try: self.incremental_sync(), which calls full_sync
MonitorIterate ==
    /\ mode \in MonitorModes
    /\ pc = "mon_loop"
    /\ pc' = "idle"
    /\ FreshPass
    /\ UNCHANGED <<exclude_paths, cli, monitor, primary, secondary, memo, mode, run, snap>>

\* mutant of MonitorSleep: a pass that returned false ends the loop
MonitorSleepStopsOnFailure ==
    /\ mode \in MonitorModes
    /\ pc = "done"
    /\ result \in {"true", "false"}
    /\ monitor' = [monitor EXCEPT !.last = result, !.slept = monitor.interval]
    /\ pc' = IF result = "false" THEN "mon_exit" ELSE "mon_sleep"
    /\ UNCHANGED <<exclude_paths, cli, primary, secondary, todo, success, fs_success, phase,
                   stack, held, ret, rets, result, log, faults, memo, mode, run, snap>>

\* the pass returned, true or false: time.sleep(interval)
MonitorSleep ==
    /\ mode \in MonitorModes
    /\ pc = "done"
    /\ result \in {"true", "false"}
    /\ monitor' = [monitor EXCEPT !.last = result, !.slept = monitor.interval]
    /\ pc' = "mon_sleep"
    /\ UNCHANGED <<exclude_paths, cli, primary, secondary, todo, success, fs_success, phase,
                   stack, held, ret, rets, result, log, faults, memo, mode, run, snap>>

\* mutant of MonitorCatch: after an exception the loop sleeps the interval
MonitorCatchSleepsInterval ==
    /\ mode \in MonitorModes
    /\ pc = "done"
    /\ result = "raised"
    /\ monitor' = [monitor EXCEPT !.last = result, !.slept = monitor.interval]
    /\ pc' = "mon_backoff"
    /\ UNCHANGED <<exclude_paths, cli, primary, secondary, todo, success, fs_success, phase,
                   stack, held, ret, rets, result, log, faults, memo, mode, run, snap>>

\* except Exception: the pass raised; time.sleep(30)
MonitorCatch ==
    /\ mode \in MonitorModes
    /\ pc = "done"
    /\ result = "raised"
    /\ monitor' = [monitor EXCEPT !.last = result, !.slept = RetryBackoff]
    /\ pc' = "mon_backoff"
    /\ UNCHANGED <<exclude_paths, cli, primary, secondary, todo, success, fs_success, phase,
                   stack, held, ret, rets, result, log, faults, memo, mode, run, snap>>

\* the sleep is over: back to the top of the loop
MonitorWake ==
    /\ mode \in MonitorModes
    /\ pc \in {"mon_sleep", "mon_backoff"}
    /\ pc' = "mon_loop"
    /\ UNCHANGED <<exclude_paths, cli, monitor, primary, secondary, todo, success, fs_success, phase,
                   stack, held, ret, rets, result, log, faults, memo, mode, run, snap>>

\* KeyboardInterrupt.  Inside the try block (during the pass or the interval
\* sleep) `except KeyboardInterrupt: break` ends the loop and monitor_and_sync
\* returns; during the sleep of the `except Exception` handler nothing
\* catches it and it leaves monitor_and_sync as an exception.
MonitorInterrupt ==
    /\ mode \in MonitorModes
    /\ pc \notin {"mon_exit", "mon_propagated"}
    /\ pc' = IF pc = "mon_backoff" THEN "mon_propagated" ELSE "mon_exit"
    /\ monitor' = [monitor EXCEPT !.signal = TRUE]
    /\ UNCHANGED <<exclude_paths, cli, primary, secondary, todo, success, fs_success, phase,
                   stack, held, ret, rets, result, log, faults, memo, mode, run, snap>>

\* the primary that holds user policies, user auth methods and the mount kv/
MonitorPrimaryStates ==
    {p \in RerunPrimaryStates : p.mounts = ReservedMounts @@ (KvPath :> MountFull)}

InitMonitor ==
    /\ exclude_paths \in ExcludeChoices
    /\ primary \in MonitorPrimaryStates
    /\ secondary = DirtySecondary
    /\ mode = "monitor"
    /\ pc = "mon_loop"
    /\ run = 1
    /\ phase = 0
    /\ snap = Snap0(secondary)
    /\ todo = << >>
    /\ success = TRUE
    /\ fs_success = TRUE
    /\ stack = << >>
    /\ held = Absent
    /\ ret = TRUE
    /\ rets = NoRets
    /\ result = "none"
    /\ log = << >>
    /\ faults = 0
    /\ memo = << >>
    /\ \E i \in IntervalChoices :
           monitor = [interval |-> i, slept |-> 0, last |-> "none", signal |-> FALSE]
    /\ cli = NoCli

\* what the loop does when no signal arrives
MonitorStep == FullSync \/ MonitorIterate \/ MonitorSleep \/ MonitorCatch \/ MonitorWake

NextMonitor == MonitorStep \/ MonitorInterrupt

\* every statement of the loop, and every sleep, comes to its end
SpecMonitor == InitMonitor /\ [][NextMonitor]_vars /\ WF_vars(MonitorStep)

\* ------------------------- one full_sync pass whose every step comes to its end
\* the primary holds two mounts with secrets and a tree with nested directories
InitFair ==
    /\ exclude_paths \in ExcludeChoices
    /\ primary = RichPrimary
    /\ secondary \in SecondaryStates
    /\ mode = "pass"
    /\ pc = "idle"
    /\ run = 1
    /\ phase = 0
    /\ snap = Snap0(secondary)
    /\ InitLocals

SpecFair == InitFair /\ [][Next]_vars /\ WF_vars(Next)

\* ------------------------------------------------------------------- main
\* the process ends with this exit code
Exit(code) == [cli EXCEPT !.exited = TRUE, !.code = code]

\* action health: primary_client.health_check(); an exception that is not a
\* RequestException reaches `except Exception` of main
MainHealthPrimary ==
    /\ mode = "cli_health"
    /\ pc = "main"
    /\ \E o \in Outcomes :
        /\ Call("primary", "main", "health_check", << >>, o)
        /\ pc' = IF o = "raise" THEN "exited" ELSE "main_health_secondary"
        /\ cli' = IF o = "raise" THEN Exit(1) ELSE [cli EXCEPT !.primary_healthy = (o = "ok")]
    /\ UNCHANGED <<exclude_paths, monitor, primary, secondary, todo, success, fs_success, phase,
                   stack, held, ret, rets, result, mode, run, snap>>

\* secondary_client.health_check(), whatever the primary answered, then
\* sys.exit(1) unless both are healthy
MainHealthSecondary ==
    /\ mode = "cli_health"
    /\ pc = "main_health_secondary"
    /\ \E o \in Outcomes :
        /\ Call("secondary", "main", "health_check", << >>, o)
        /\ cli' = Exit(IF cli.primary_healthy /\ o = "ok" THEN 0 ELSE 1)
    /\ pc' = "exited"
    /\ UNCHANGED <<exclude_paths, monitor, primary, secondary, todo, success, fs_success, phase,
                   stack, held, ret, rets, result, mode, run, snap>>

\* --dry-run with the action sync or monitor: main logs what it would do
MainDryRun ==
    /\ mode \in {"cli_sync", "cli_monitor"}
    /\ pc = "main"
    /\ cli.dry_run
    /\ cli' = Exit(0)
    /\ pc' = "exited"
    /\ UNCHANGED <<exclude_paths, monitor, primary, secondary, todo, success, fs_success, phase,
                   stack, held, ret, rets, result, log, faults, memo, mode, run, snap>>

\* action sync: success = synchronizer.full_sync()
MainSync ==
    /\ mode = "cli_sync"
    /\ pc = "main"
    /\ ~cli.dry_run
    /\ pc' = "idle"
    /\ UNCHANGED <<exclude_paths, cli, monitor, primary, secondary, todo, success, fs_success, phase,
                   stack, held, ret, rets, result, log, faults, memo, mode, run, snap>>

\* mutant of MainSyncExit: the result of full_sync is not looked at
MainSyncExitIgnored ==
    /\ mode = "cli_sync"
    /\ pc = "done"
    /\ cli' = Exit(IF result = "raised" THEN 1 ELSE 0)
    /\ pc' = "exited"
    /\ UNCHANGED <<exclude_paths, monitor, primary, secondary, todo, success, fs_success, phase,
                   stack, held, ret, rets, result, log, faults, memo, mode, run, snap>>

\* if not success: sys.exit(1); an exception of full_sync reaches
\* `except Exception` of main, which exits with 1 as well
MainSyncExit ==
    /\ mode = "cli_sync"
    /\ pc = "done"
    /\ cli' = Exit(IF result = "true" THEN 0 ELSE 1)
    /\ pc' = "exited"
    /\ UNCHANGED <<exclude_paths, monitor, primary, secondary, todo, success, fs_success, phase,
                   stack, held, ret, rets, result, log, faults, memo, mode, run, snap>>

\* action monitor: synchronizer.monitor_and_sync(sync_interval)
MainMonitor ==
    /\ mode = "cli_monitor"
    /\ pc = "main"
    /\ ~cli.dry_run
    /\ pc' = "mon_loop"
    /\ UNCHANGED <<exclude_paths, cli, monitor, primary, secondary, todo, success, fs_success, phase,
                   stack, held, ret, rets, result, log, faults, memo, mode, run, snap>>

\* monitor_and_sync returned: main runs to its end.  A KeyboardInterrupt that
\* left monitor_and_sync reaches `except KeyboardInterrupt` of main.
MainMonitorExit ==
    /\ mode = "cli_monitor"
    /\ pc \in {"mon_exit", "mon_propagated"}
    /\ cli' = Exit(IF pc = "mon_exit" THEN 0 ELSE 1)
    /\ pc' = "exited"
    /\ UNCHANGED <<exclude_paths, monitor, primary, secondary, todo, success, fs_success, phase,
                   stack, held, ret, rets, result, log, faults, memo, mode, run, snap>>

Main ==
    \/ MainHealthPrimary
    \/ MainHealthSecondary
    \/ MainDryRun
    \/ MainSync
    \/ MainSyncExit
    \/ MainMonitor
    \/ MainMonitorExit

\* main is called with one of the three actions, with or without --dry-run,
\* and with the interval of --sync-interval
InitCli ==
    /\ exclude_paths = DefaultExcludePaths
    /\ primary \in MonitorPrimaryStates
    /\ secondary = DirtySecondary
    /\ mode \in CliModes
    /\ pc = "main"
    /\ run = 1
    /\ phase = 0
    /\ snap = Snap0(secondary)
    /\ todo = << >>
    /\ success = TRUE
    /\ fs_success = TRUE
    /\ stack = << >>
    /\ held = Absent
    /\ ret = TRUE
    /\ rets = NoRets
    /\ result = "none"
    /\ log = << >>
    /\ faults = 0
    /\ memo = << >>
    /\ \E i \in IntervalChoices :
           monitor = [interval |-> i, slept |-> 0, last |-> "none", signal |-> FALSE]
    /\ \E d \in BOOLEAN : cli = [NoCli EXCEPT !.dry_run = d]

NextCli == Main \/ MonitorStep \/ MonitorInterrupt

SpecCli == InitCli /\ [][NextCli]_vars

\* ==================================================================== claims
MutatingOps ==
    {"disable_secret_engine", "disable_auth_method", "delete_policy",
     "enable_secret_engine", "enable_auth_method", "write_policy", "write_secret"}
PhaseSites ==
    {"_sync_secret_engines", "_sync_auth_methods", "_sync_policies",
     "_sync_secrets", "_sync_secrets_recursive"}
LogIdx == 1..Len(log)

\* C1: when the health check of the primary or of the secondary fails,
\* full_sync returns false and that pass issues no mutating call to the
\* secondary (and leaves the secondary as it found it).
C1_HealthFailureAborts ==
    (\E i \in LogIdx : log[i].op = "health_check" /\ log[i].res = "fail") =>
        /\ pc = "done"
        /\ result = "false"
        /\ secondary = snap.sec[1]
        /\ \A i \in LogIdx : ~(log[i].inst = "secondary" /\ log[i].op \in MutatingOps)

\* the secondary of a dirty cluster fails its health check after the primary passed
C1_Witness ==
    /\ pc = "done"
    /\ Len(log) = 2
    /\ log[1].res = "ok"
    /\ log[2].inst = "secondary" /\ log[2].op = "health_check" /\ log[2].res = "fail"
    /\ secondary = DirtySecondary

\* C2: when _clear_secondary reports failure, full_sync returns false and no
\* call of the engines, auth, policies or secrets phase is issued in that pass.
C2_ResetFailureAborts ==
    (\E i \in LogIdx : log[i].site = "_clear_secondary" /\ log[i].res = "raise") =>
        /\ pc \in {"clear_ret", "done"}
        /\ pc = "done" => result = "false"
        /\ \A i \in LogIdx : log[i].site \notin PhaseSites

\* the reset fails after it has already disabled something
C2_Witness ==
    /\ pc = "done"
    /\ result = "false"
    /\ rets.clear = "false"
    /\ secondary # snap.sec[1]
    /\ \E i \in LogIdx : log[i].site = "_clear_secondary" /\ log[i].res = "raise"

\* C3: once the health check and the reset have succeeded, each of the four
\* phases runs and returns, whatever the earlier ones returned, and full_sync
\* returns the conjunction of the four results.
C3_AllPhasesRun ==
    (pc = "done" /\ rets.clear = "true") =>
        /\ \A s \in {"_sync_secret_engines", "_sync_auth_methods", "_sync_policies", "_sync_secrets"} :
               \E i \in LogIdx : log[i].site = s
        /\ \A n \in {"engines", "auth", "policies", "secrets"} : rets[n] \in {"true", "false"}
        /\ result = B(\A n \in {"engines", "auth", "policies", "secrets"} : rets[n] = "true")

\* the engines phase fails, the later phases still run and the secrets phase writes
C3_Witness ==
    /\ pc = "done"
    /\ rets.engines = "false" /\ rets.auth = "true"
    /\ rets.policies = "true" /\ rets.secrets = "true"
    /\ result = "false"
    /\ \E i \in LogIdx : log[i].op = "write_secret" /\ log[i].res = "ok"

\* the phase a logged call belongs to, -1 for the reads of the primary
Rank(e) ==
    CASE e.op = "health_check" -> 0
      [] e.site = "_clear_secondary" -> 1
      [] e.op = "enable_secret_engine" -> 2
      [] e.op = "enable_auth_method" -> 3
      [] e.op = "write_policy" -> 4
      [] e.op = "write_secret" -> 5
      [] OTHER -> -1

\* C4: the calls of one pass are ordered by phase: health checks, then reset
\* calls, then enable_mount, then enable_auth, then write_policy, then
\* write_secret; no call of an earlier phase follows one of a later phase.
\* (Stated of the latest call against every call before it: the log only
\* grows by appending, so this holding in every state orders every pair.)
C4_PhaseOrdering ==
    \A i \in LogIdx :
        (i < Len(log) /\ Rank(log[i]) >= 0 /\ Rank(log[Len(log)]) >= 0)
            => Rank(log[i]) <= Rank(log[Len(log)])

\* a pass that issued calls of every one of the six kinds
C4_Witness ==
    /\ pc = "done"
    /\ \A r \in 0..5 : \E i \in LogIdx : Rank(log[i]) = r /\ log[i].res = "ok"
    /\ \E i \in LogIdx : log[i].op = "disable_secret_engine"
    /\ \E i \in LogIdx : log[i].op = "delete_policy"

\* C5: a path the Path Filter excludes is protected from the reset: no mount
\* or auth method of the secondary whose path starts with a member of
\* exclude_paths is disabled by _clear_secondary.
C5_ExcludedNeverDisabled ==
    \A i \in LogIdx :
        (log[i].site = "_clear_secondary"
         /\ log[i].op \in {"disable_secret_engine", "disable_auth_method"})
            => ~should_exclude_path(MountKey(log[i].path))

\* C6: for every exclusion set, no mount or auth method under sys/ or
\* identity/, and not the token/ auth method, is the target of an enable or
\* disable call on the secondary, and the policies root and default are never
\* written or deleted.
C6_ReservedUntouched ==
    \A i \in LogIdx :
        log[i].inst = "secondary" =>
            /\ log[i].op \in {"enable_secret_engine", "disable_secret_engine",
                              "enable_auth_method", "disable_auth_method"}
                 => /\ ~StartsWith(MountKey(log[i].path), SysPrefix)
                    /\ ~StartsWith(MountKey(log[i].path), IdentityPrefix)
            /\ log[i].op \in {"enable_auth_method", "disable_auth_method"}
                 => MountKey(log[i].path) # TokenPath
            /\ log[i].op \in {"write_policy", "delete_policy"}
                 => log[i].path \notin SystemPolicies

FieldDefault(field) ==
    CASE field = "type" -> None
      [] field = "description" -> ""
      [] OTHER -> EmptyMap
SameObject(applied, source, key) ==
    /\ key \in DOMAIN applied
    /\ key \in DOMAIN source
    /\ \A field \in {"type", "description", "config", "options"} :
           Get(applied[key], field, FieldDefault(field)) = Get(source[key], field, FieldDefault(field))

\* C7: every mount, auth method and policy a pass applied to the secondary
\* has, on the secondary, the type, description, config and options (for a
\* policy: the document) of the primary's object at that path.
C7_AppliedIdentical ==
    \A i \in LogIdx :
        log[i].res = "ok" =>
            /\ log[i].op = "enable_secret_engine"
                 => SameObject(secondary.mounts, primary.mounts, MountKey(log[i].path))
            /\ log[i].op = "enable_auth_method"
                 => SameObject(secondary.auth, primary.auth, MountKey(log[i].path))
            /\ log[i].op = "write_policy"
                 => /\ log[i].path \in DOMAIN secondary.policies
                    /\ secondary.policies[log[i].path] = primary.policies[log[i].path]

C10_RerunConverges ==
    (mode = "rerun" /\ pc = "finished") =>
        /\ snap.sec[4] = snap.sec[2]
        /\ snap.sec[5] = snap.sec[4]

\* the failed pass started from a dirty secondary and left it in a state that
\* is neither its start nor the end state of a complete pass
C10_Witness ==
    /\ mode = "rerun"
    /\ pc = "finished"
    /\ snap.sec[1] = DirtySecondary
    /\ snap.res[2] \in {"false", "killed"}
    /\ snap.sec[3] # snap.sec[1]
    /\ snap.sec[3] # snap.sec[2]
    /\ snap.sec[2] # FreshSecondary

\* ---------------------------------------------------- the secret traversal
SecretOps == {"list_secrets", "read_secret", "write_secret"}
Count(op, path) == Cardinality({i \in LogIdx : log[i].op = op /\ log[i].path = path})

\* the mounts of the primary whose secrets a pass copies, their interior
\* nodes (the mount root included) and their leaves
IncludedMounts == {m \in DOMAIN primary.mounts : ~MountSkipped(m)}
InteriorNodes ==
    {RStrip(m) : m \in IncludedMounts}
        \cup {p \in DOMAIN primary.dirs : \E m \in IncludedMounts : StartsWith(p, m)}
IncludedLeaves ==
    {p \in DOMAIN primary.leaves : \E m \in IncludedMounts : StartsWith(p, m)}

\* _sync_secrets was called on its own and has returned
SecretsReturned == mode = "phase" /\ phase = 4 /\ pc = "done"

\* the primary answered every listing and every read of the traversal
TraversalAnswered ==
    \A i \in LogIdx :
        /\ log[i].res # "raise"
        /\ log[i].inst = "primary" => log[i].res = "ok"

\* C11: for every finite secret tree under an included mount, one pass issues
\* exactly one list call per interior node (the mount root included) and
\* exactly one read per leaf, and each leaf whose read returned a value is
\* written exactly once to the secondary, at the same absolute path and with
\* the same value.  No node is ever listed, read or written twice, and only
\* nodes of the tree are visited, whatever the calls answer; the "exactly
\* one" holds of a traversal whose listings and reads the primary answered.
C11_TraversalExactlyOnce ==
    mode = "phase" =>
        /\ \A i, j \in LogIdx :
               (i < j /\ log[i].op \in SecretOps /\ log[i].op = log[j].op)
                   => log[i].path # log[j].path
        /\ \A i \in LogIdx :
               /\ log[i].op = "list_secrets" => log[i].path \in InteriorNodes
               /\ log[i].op \in {"read_secret", "write_secret"} => log[i].path \in IncludedLeaves
               /\ (log[i].op = "write_secret" /\ log[i].res = "ok")
                      => /\ log[i].path \in DOMAIN secondary.secrets
                         /\ secondary.secrets[log[i].path] = primary.leaves[log[i].path]
        /\ (SecretsReturned /\ TraversalAnswered) =>
               /\ \A n \in InteriorNodes : Count("list_secrets", n) = 1
               /\ \A l \in IncludedLeaves :
                      /\ Count("read_secret", l) = 1
                      /\ Count("write_secret", l) = 1

\* both mounts of the rich primary were traversed and every write succeeded
C11_Witness ==
    /\ SecretsReturned
    /\ TraversalAnswered
    /\ primary = RichPrimary
    /\ exclude_paths = << >>
    /\ snap.res = <<"true">>
    /\ \A l \in DOMAIN RichLeaves :
           l \in DOMAIN secondary.secrets /\ secondary.secrets[l] = RichLeaves[l]

\* C12: the secret traversal never visits a path matching an exclusion
\* prefix: no list_secrets, read_secret or write_secret call of a pass targets
\* a path that starts with a member of exclude_paths, a member that names a
\* sub-path below a mount root included.
C12_TraversalSkipsExcluded ==
    \A i \in LogIdx :
        log[i].op \in SecretOps => ~should_exclude_path(log[i].path)

\* ------------------------------------------- the configuration replicators
\* one of the three configuration replicators was called on its own and returned
ReplicatorReturned == mode = "phase" /\ phase \in 1..3 /\ pc = "done"

ApplyOp ==
    CASE phase = 1 -> "enable_secret_engine"
      [] phase = 2 -> "enable_auth_method"
      [] OTHER -> "write_policy"

PolicyWasRead(name) ==
    \E i \in LogIdx : log[i].op = "read_policy" /\ log[i].path = name /\ log[i].res = "ok"

\* the objects of the primary's list the running replicator does not skip
\* (a policy the primary could not deliver is skipped with a warning)
NonSkipped ==
    CASE phase = 1 ->
            {RStrip(p) : p \in {q \in DOMAIN primary.mounts : ~EngineSkipped(q, primary.mounts[q])}}
      [] phase = 2 ->
            {RStrip(p) : p \in {q \in DOMAIN primary.auth : ~AuthSkipped(q, primary.auth[q])}}
      [] OTHER ->
            {n \in DOMAIN primary.policies : ~PolicySkipped(n) /\ PolicyWasRead(n)}

\* the replicator got the primary's list and nothing raised
ListedAndNoRaise ==
    /\ Len(log) > 0
    /\ log[1].res = "ok"
    /\ \A i \in LogIdx : log[i].res # "raise"

\* C13: each configuration replicator has best-effort batch semantics: when
\* applying one object fails, every remaining object of the primary's list is
\* still attempted (each non-skipped object gets exactly one apply call), and
\* the replicator returns true iff every non-skipped object was applied
\* successfully.
C13_BestEffortBatch ==
    ReplicatorReturned =>
        /\ snap.res[1] = "true" =>
               \A i \in LogIdx : log[i].op = ApplyOp => log[i].res = "ok"
        /\ ListedAndNoRaise =>
               /\ \A obj \in NonSkipped : Count(ApplyOp, obj) = 1
               /\ \A i \in LogIdx : log[i].op = ApplyOp => log[i].path \in NonSkipped
               /\ phase = 3 =>
                      \A n \in DOMAIN primary.policies :
                          ~PolicySkipped(n) => Count("read_policy", n) = 1
               /\ snap.res[1] = "true" <=>
                      \A i \in LogIdx : log[i].op = ApplyOp => log[i].res = "ok"

\* the first object failed to apply, a later one was applied, the result is false
C13_Witness ==
    /\ ReplicatorReturned
    /\ ListedAndNoRaise
    /\ snap.res = <<"false">>
    /\ \E i, j \in LogIdx :
           /\ i < j
           /\ log[i].op = ApplyOp /\ log[i].res = "fail"
           /\ log[j].op = ApplyOp /\ log[j].res = "ok"

\* the only calls of the traversal that did not succeed are failed writes
OnlyWritesFailed ==
    /\ \A i \in LogIdx :
           log[i].res # "ok" => (log[i].op = "write_secret" /\ log[i].res = "fail")
    /\ \E i \in LogIdx : log[i].op = "write_secret" /\ log[i].res = "fail"

\* C14: a failure to write one secret makes the secrets phase return false
\* but does not abort the traversal: every other leaf, in sibling and cousin
\* branches of the same mount and in the remaining mounts, is still read and
\* written in that pass.
C14_WriteFailureNotFatal ==
    (SecretsReturned /\ OnlyWritesFailed) =>
        /\ snap.res[1] = "false"
        /\ \A n \in InteriorNodes : Count("list_secrets", n) = 1
        /\ \A l \in IncludedLeaves :
               /\ Count("read_secret", l) = 1
               /\ Count("write_secret", l) = 1
        /\ \A i \in LogIdx :
               (log[i].op = "write_secret" /\ log[i].res = "ok")
                   => /\ log[i].path \in DOMAIN secondary.secrets
                      /\ secondary.secrets[log[i].path] = primary.leaves[log[i].path]

\* the write of kv/b/c failed and its cousin kv/d/e was written after it; a
\* write failed in the mount visited first and one succeeded in the other mount
C14_Witness ==
    /\ SecretsReturned
    /\ OnlyWritesFailed
    /\ primary = RichPrimary
    /\ \E i, j \in LogIdx :
           /\ i < j
           /\ log[i].op = "write_secret" /\ log[i].res = "fail" /\ log[i].path = KvLeafC
           /\ log[j].op = "write_secret" /\ log[j].res = "ok" /\ log[j].path = KvLeafE
    /\ \E i, j \in LogIdx :
           /\ i < j
           /\ log[i].op = "write_secret" /\ log[i].res = "fail"
           /\ log[j].op = "write_secret" /\ log[j].res = "ok"
           /\ StartsWith(log[i].path, KvPath) # StartsWith(log[j].path, KvPath)

HasPrefix(P, E) == \E k \in 0..Len(P) : E \o SubSeq(P, k + 1, Len(P)) = P

FilterReturned == mode = "filter" /\ pc = "done"

\* C17: for all paths P and exclusion sets E, should_exclude_path(P) is true
\* iff P starts with some member of E (a case-sensitive prefix match with no
\* normalization), it is false for every P when E is empty, and the call
\* changes nothing: neither exclude_paths nor either instance nor the call log.
C17_FilterIsPrefixMatch ==
    /\ [](FilterReturned =>
            /\ ret <=> \E i \in 1..Len(exclude_paths) : HasPrefix(todo[1], exclude_paths[i])
            /\ exclude_paths = << >> => ~ret)
    /\ [][mode = "filter" =>
            UNCHANGED <<exclude_paths, primary, secondary, log, todo>>]_vars

\* the filter answered true for sys/auth under the default exclusion set
C17_Witness ==
    /\ FilterReturned
    /\ exclude_paths = DefaultExcludePaths
    /\ todo = << <<"s", "y", "s", "/", "a", "u", "t", "h">> >>
    /\ ret

\* --------------------------------------------------------- the monitoring loop
MonitorLeft == pc \in {"mon_exit", "mon_propagated"}
PassReturned == mode \in MonitorModes /\ pc = "done" /\ result \in {"true", "false"}
PassRaised == mode \in MonitorModes /\ pc = "done" /\ result = "raised"
PassStarted == mode \in MonitorModes /\ pc = "idle"

\* C15: the monitoring loop never exits on its own: it is left only when a
\* stop signal arrived; after every pass, whether it returned true or false,
\* the loop sleeps the configured interval, and as long as no stop signal
\* arrives another pass eventually starts.
C15_LoopNeverExits ==
    /\ [](MonitorLeft => monitor.signal)
    /\ [][PassReturned =>
            \/ pc' = "mon_sleep" /\ monitor'.slept = monitor.interval
            \/ monitor'.signal]_vars
    /\ (PassReturned ~> (PassStarted \/ monitor.signal))

\* a pass that returned false was followed, after the interval, by a new pass
C15_Witness ==
    /\ PassStarted
    /\ monitor.last = "false"
    /\ monitor.slept = monitor.interval
    /\ ~monitor.signal

\* C16: when a pass inside the monitoring loop raises an unexpected
\* exception, the exception does not leave monitor: the loop sleeps the fixed
\* backoff of 30, not the configured interval, and then retries with a new
\* pass.
C16_ExceptionBackoff ==
    /\ [][PassRaised =>
            \/ pc' = "mon_backoff" /\ monitor'.slept = RetryBackoff
            \/ monitor'.signal]_vars
    /\ [](pc = "mon_backoff" => (monitor.last = "raised" /\ monitor.slept = RetryBackoff))
    /\ (PassRaised ~> (PassStarted \/ monitor.signal))

\* a pass that raised was followed, after the backoff, by a new pass
C16_Witness ==
    /\ PassStarted
    /\ monitor.last = "raised"
    /\ monitor.slept = RetryBackoff
    /\ monitor.interval # RetryBackoff
    /\ ~monitor.signal

ReadOps ==
    {"health_check", "list_secret_engines", "list_auth_methods", "list_policies",
     "read_policy", "list_secrets", "read_secret"}

\* C18: the primary is never mutated: across any sequence of passes only read
\* operations (health, list, read) are issued to the primary, and its mounts,
\* auth methods, policies and secrets are unchanged by the tool.
C18_PrimaryUntouched ==
    /\ [](\A i \in LogIdx : log[i].inst = "primary" => log[i].op \in ReadOps)
    /\ [][primary' = primary]_vars

\* a second pass of the loop read secrets from the primary and wrote one
C18_Witness ==
    /\ mode \in MonitorModes
    /\ monitor.last # "none"
    /\ pc = "done"
    /\ \E i \in LogIdx : log[i].inst = "primary" /\ log[i].op = "read_secret"
    /\ \E i \in LogIdx : log[i].op = "write_secret" /\ log[i].res = "ok"

\* ------------------------------------------------------------- termination
\* number of segments of a sub-path: '' has none, 'b' one, 'b/d' two
Segments(s) == IF s = << >> THEN 0 ELSE 1 + Cardinality({i \in 1..Len(s) : s[i] = Slash})

\* C20: the secret traversal of a mount terminates for every finite
\* hierarchy the primary's list operation reports: each recursive step extends
\* the sub-path by one segment (the frame at depth k works on a sub-path of
\* k - 1 segments), every traversal that was entered is left again, and the
\* full_sync pass eventually reaches Done.
C20_TraversalTerminates ==
    /\ [](\A k \in 1..Len(stack) : Segments(stack[k].sub_path) = k - 1)
    /\ ((stack # << >>) ~> (stack = << >>))
    /\ <>(pc = "done")

\* a pass descended into kv/d/, wrote its leaf and reached Done
C20_Witness ==
    /\ mode = "pass"
    /\ primary = RichPrimary
    /\ pc = "done"
    /\ stack = << >>
    /\ \E i \in LogIdx : log[i].op = "list_secrets" /\ log[i].path = KvDirD
    /\ \E i \in LogIdx : log[i].op = "write_secret" /\ log[i].path = KvLeafE /\ log[i].res = "ok"

\* a health_check call to the instance, made by main, with this outcome
MainAsked(inst, res) ==
    \E i \in DOMAIN log :
        /\ log[i].site = "main" /\ log[i].op = "health_check"
        /\ log[i].inst = inst /\ log[i].res = res

MainQueries(inst) ==
    Cardinality({i \in DOMAIN log : log[i].site = "main" /\ log[i].inst = inst})

\* C21: when main has exited, the action sync has exited with 1 if full_sync
\* returned false and with 0 if it returned true; the action health has
\* queried the primary and the secondary once each and has exited with 1 iff
\* one of them was unhealthy; the action monitor has exited only after a
\* keyboard interrupt
C21_ExitCodes ==
    (cli.exited /\ ~(mode \in {"cli_sync", "cli_monitor"} /\ cli.dry_run)) =>
        /\ mode = "cli_sync" =>
            /\ result = "false" => cli.code = 1
            /\ result = "true" => cli.code = 0
        /\ (mode = "cli_health" /\ \A i \in DOMAIN log : log[i].res # "raise") =>
            /\ MainQueries("primary") = 1
            /\ MainQueries("secondary") = 1
            /\ cli.code = 1 <=> (MainAsked("primary", "fail") \/ MainAsked("secondary", "fail"))
            /\ cli.code = 0 <=> (MainAsked("primary", "ok") /\ MainAsked("secondary", "ok"))
        /\ mode = "cli_monitor" => monitor.signal

\* full_sync returned false after it had replicated something, and the
\* process has ended with exit code 1
C21_Witness ==
    /\ mode = "cli_sync"
    /\ cli.exited
    /\ cli.code = 1
    /\ result = "false"
    /\ \E i \in DOMAIN log : log[i].op = "write_secret"

\* the reset of this pass has returned
ResetReturned == mode = "pass" /\ rets.clear # "-"

\* the calls of the reset that were answered with this outcome
ResetCalls(res) ==
    {i \in DOMAIN log : log[i].site = "_clear_secondary" /\ log[i].res = res}

\* the calls of the reset that disable or delete something
ResetRemovals ==
    {i \in DOMAIN log : log[i].site = "_clear_secondary" /\ log[i].op \in MutatingOps}

\* C22: when the only calls of the reset that did not succeed are disable or
\* delete calls that reported failure, the reset has still issued one call
\* for every eligible mount, auth method and policy the secondary had, and
\* it has returned true
C22_ResetToleratesFailures ==
    (ResetReturned /\ ResetCalls("raise") = {} /\ ResetCalls("fail") \subseteq ResetRemovals) =>
        /\ rets.clear = "true"
        /\ \A m \in DOMAIN snap.sec[1].mounts :
               ClearsMount(m) => Count("disable_secret_engine", RStrip(m)) = 1
        /\ \A a \in DOMAIN snap.sec[1].auth :
               ClearsAuth(a) => Count("disable_auth_method", RStrip(a)) = 1
        /\ \A p \in DOMAIN snap.sec[1].policies :
               ClearsPolicy(p) => Count("delete_policy", p) = 1

\* the first disable call of the reset reported failure, a later delete call
\* was still made, and the reset returned true
C22_Witness ==
    /\ ResetReturned
    /\ rets.clear = "true"
    /\ \E i \in ResetCalls("fail") : \E j \in ResetRemovals :
           /\ i < j
           /\ log[i].op = "disable_secret_engine"
           /\ log[j].op = "delete_policy"

\* the reset has just returned True to full_sync
ResetSucceeded == mode = "pass" /\ pc = "clear_ret" /\ ret

\* C23: after a reset that reports success the mounts of the secondary all
\* start with sys/ or identity/, its auth methods are token/ or start with
\* sys/, and its policies are among root and default
C23_ResetLeavesNoUserData ==
    ResetSucceeded =>
        /\ \A m \in DOMAIN secondary.mounts :
               StartsWith(m, SysPrefix) \/ StartsWith(m, IdentityPrefix)
        /\ \A a \in DOMAIN secondary.auth : a = TokenPath \/ StartsWith(a, SysPrefix)
        /\ DOMAIN secondary.policies \subseteq SystemPolicies

\* the primary answered the listing of this node with its keys
ListedOk(node) ==
    \E i \in LogIdx :
        log[i].op = "list_secrets" /\ log[i].path = node /\ log[i].res = "ok"

\* the only calls that did not succeed are listings of the secret tree that
\* reported failure
OnlyListingsFailed ==
    \A i \in LogIdx :
        log[i].res # "ok" => (log[i].op = "list_secrets" /\ log[i].res = "fail")

\* C24: when listings of the primary fail or return nothing, the secrets
\* phase still returns true, the root of every included mount has been
\* listed, and below every node whose listing was answered each sub-directory
\* has been listed and each leaf has been read and written, once
C24_FailedListingAbandonsBranchOnly ==
    (SecretsReturned /\ OnlyListingsFailed) =>
        /\ snap.res[1] = "true"
        /\ \A m \in IncludedMounts : Count("list_secrets", RStrip(m)) = 1
        /\ \A d \in DOMAIN primary.dirs :
               ListedOk(d) =>
                   \A k \in DOMAIN primary.dirs[d] :
                       LET key == primary.dirs[d][k]
                           child == Strip(Join(d, key))
                       IN IF EndsWithSlash(key)
                          THEN Count("list_secrets", child) = 1
                          ELSE /\ Count("read_secret", child) = 1
                               /\ Count("write_secret", child) = 1

\* the listing of kv/b failed, so kv/b/c was never read; its sibling branch
\* kv/d and the mount db/ were still traversed, and the phase returned true
C24_Witness ==
    /\ SecretsReturned
    /\ snap.res[1] = "true"
    /\ \E i \in LogIdx :
           /\ log[i].op = "list_secrets" /\ log[i].path = KvDirB /\ log[i].res = "fail"
           /\ \E j \in LogIdx :
                  i < j /\ log[j].op = "write_secret" /\ log[j].path = KvLeafE
    /\ Count("read_secret", KvLeafC) = 0
    /\ Count("write_secret", DbLeafK) = 1

\* the mounts or the auth methods of the primary, by the replicator that ran
PhaseObjects == IF phase = 1 THEN primary.mounts ELSE primary.auth

\* `if not engine_type`, `if not auth_type`
Typeless(obj) == Falsy(Get(obj, "type", None))

\* C25: when the engines or the auth replicator has returned, no enable call
\* was made for an object of the primary that has no type, every object that
\* is not skipped got its enable call, and if every call succeeded the
\* replicator returned true although it skipped something
C25_TypelessSkipped ==
    (ReplicatorReturned /\ phase \in {1, 2} /\ ListedAndNoRaise) =>
        /\ \A p \in DOMAIN PhaseObjects :
               Typeless(PhaseObjects[p]) => Count(ApplyOp, RStrip(p)) = 0
        /\ \A obj \in NonSkipped : Count(ApplyOp, obj) = 1
        /\ (\A i \in LogIdx : log[i].res = "ok") => snap.res[1] = "true"

\* the primary holds a mount without a type and a mount with one: the first
\* got no enable call, the second was enabled, and the result is true
C25_Witness ==
    /\ ReplicatorReturned
    /\ phase = 1
    /\ snap.res[1] = "true"
    /\ DbPath \in DOMAIN primary.mounts
    /\ Typeless(primary.mounts[DbPath])
    /\ Count("enable_secret_engine", RStrip(DbPath)) = 0
    /\ \E i \in LogIdx :
           /\ log[i].op = "enable_secret_engine" /\ log[i].path = RStrip(KvPath)
           /\ log[i].res = "ok"

\* the path is the root of the mount or lies under it
UnderMount(path, mount_path) == path = RStrip(mount_path) \/ StartsWith(path, mount_path)

\* the mount path starts with a member of the exclusion set, with sys/ or
\* with identity/
MountLeftOut(mount_path) ==
    \/ \E k \in DOMAIN exclude_paths : StartsWith(mount_path, exclude_paths[k])
    \/ StartsWith(mount_path, SysPrefix)
    \/ StartsWith(mount_path, IdentityPrefix)

\* C26: no list, read or write call of the secrets phase has a path under a
\* mount of the primary whose path starts with a member of the exclusion
\* set, with sys/ or with identity/
C26_ExcludedMountNeverTraversed ==
    mode = "phase" =>
        \A m \in DOMAIN primary.mounts :
            MountLeftOut(m) =>
                \A i \in LogIdx : log[i].op \in SecretOps => ~UnderMount(log[i].path, m)

\* kv/ is excluded and holds secrets: the phase has returned, it has copied
\* the secret of db/ and has made no call under kv/
C26_Witness ==
    /\ SecretsReturned
    /\ exclude_paths = <<KvPath>>
    /\ KvLeafA \in DOMAIN primary.leaves
    /\ Count("write_secret", DbLeafK) = 1
    /\ \A i \in LogIdx : ~UnderMount(log[i].path, KvPath)

\* the health queries _health_check has sent to the instance
HealthQueries(inst) ==
    {i \in LogIdx : log[i].site = "_health_check" /\ log[i].inst = inst}

\* the instance was asked and reported healthy
ReportedHealthy(inst) == \E i \in HealthQueries(inst) : log[i].res = "ok"

\* C27: in a pass each instance is asked for its health at most once; the
\* health check has returned true exactly when both instances were asked and
\* reported healthy, and then each was asked exactly once; it has returned
\* false only after an instance reported unhealthy
C27_HealthCheckBothOnce ==
    mode = "pass" =>
        /\ Cardinality(HealthQueries("primary")) <= 1
        /\ Cardinality(HealthQueries("secondary")) <= 1
        /\ rets.health = "true" <=> (ReportedHealthy("primary") /\ ReportedHealthy("secondary"))
        /\ rets.health = "true" =>
               /\ Cardinality(HealthQueries("primary")) = 1
               /\ Cardinality(HealthQueries("secondary")) = 1
        /\ rets.health = "false" =>
               \E inst \in {"primary", "secondary"} :
                   \E i \in HealthQueries(inst) : log[i].res = "fail"

\* the primary was healthy and the secondary was not: the check returned
\* false after one query to each
C27_Witness ==
    /\ mode = "pass"
    /\ rets.health = "false"
    /\ ReportedHealthy("primary")
    /\ Cardinality(HealthQueries("secondary")) = 1
    /\ ~ReportedHealthy("secondary")

\* the path starts with a member of the exclusion set
Excluded(path) == \E k \in DOMAIN exclude_paths : StartsWith(path, exclude_paths[k])

\* full_sync has returned True
FullSyncTrue == mode = "pass" /\ pc = "done" /\ result = "true"

\* C28: when full_sync has returned true, the secondary holds every mount
\* and auth method of the primary that is neither excluded nor a system one,
\* every policy of the primary other than root and default, and every leaf
\* secret of the primary under an included mount, with the primary's value.
\* Mounts and auth methods without a type, which the replicators skip by
\* design, are not counted.
C28_TrueMeansMirrored ==
    FullSyncTrue =>
        /\ \A m \in DOMAIN primary.mounts :
               (~MountLeftOut(m) /\ ~Typeless(primary.mounts[m]))
                   => m \in DOMAIN secondary.mounts
        /\ \A a \in DOMAIN primary.auth :
               (~Excluded(a) /\ a # TokenPath /\ ~StartsWith(a, SysPrefix)
                    /\ ~Typeless(primary.auth[a]))
                   => a \in DOMAIN secondary.auth
        /\ \A p \in DOMAIN primary.policies :
               p \notin SystemPolicies => p \in DOMAIN secondary.policies
        /\ \A l \in DOMAIN primary.leaves :
               (\E m \in DOMAIN primary.mounts : ~MountLeftOut(m) /\ StartsWith(l, m))
                   => /\ l \in DOMAIN secondary.secrets
                      /\ secondary.secrets[l] = primary.leaves[l]

\* C29: every write_secret call of a pass comes after an enable call of the
\* engines phase of the same pass that succeeded for a mount the written
\* path lies under
C29_WritesOnlyUnderEnabledMounts ==
    mode = "pass" =>
        \A i \in LogIdx :
            log[i].op = "write_secret" =>
                \E j \in 1..(i - 1) :
                    /\ log[j].op = "enable_secret_engine"
                    /\ log[j].res = "ok"
                    /\ StartsWith(log[i].path, log[j].path \o <<Slash>>)

\* C30: once a keyboard interrupt has arrived, monitor has returned normally
\* to its caller: the loop has been left by `break`, no exception has left
\* it, and no pass runs
C30_StopSignalReturnsNormally ==
    (mode = "monitor" /\ monitor.signal) => pc = "mon_exit"

====
